---- MODULE Spec2Model ----
(***************************************************************************)
(* Content visibility, delete/share guards and MCP connection lifecycle of *)
(* the apollos backend, modelled as a state machine.                       *)
(*                                                                         *)
(* Three specifications share the module:                                  *)
(*   SpecContent  upload / share / delete handlers of api_content.py with  *)
(*                the admin endpoints that change roles and admin flags;   *)
(*   SpecFilter   the read-access predicate applied to content items;      *)
(*   SpecConn     the per-connection token lifecycle.                      *)
(***************************************************************************)
EXTENDS Naturals, FiniteSets, Sequences, TLC

VARIABLES
    isOrgAdmin,     \* set of users whose is_org_admin flag is set
    isStaff,        \* set of users whose is_staff flag is set
    memberships,    \* TeamMembership table: [Users \X Teams -> Roles \cup {NoRole}]
    entries,        \* Entry table: set of entry rows
    agents,         \* Agent table: set of agent rows
    fileObjects,    \* FileObject table: set of <<user, file>>
    resp,           \* response of the last connection request
    query,          \* last read query (principal, agent) and the rows it returned
    connections,    \* McpUserConnection table: [Users \X Services -> row or NoRow]
    registry,       \* McpServiceRegistry table: set of service ids
    client_secrets, \* McpServiceRegistry.oauth_client_secret of each service id
    sessions,       \* request.session of each user: pending <<state, service id>> pairs
    issued,         \* state values start_auth_flow has generated so far
    redeemed,       \* <<user, state>> pairs a callback has popped from the session
    env,            \* APOLLOS_VAULT_MASTER_KEY in the environment of each process
    sweep,          \* the refresh sweep: rows loaded at scan time, rows still to attempt
    rot,            \* the rotate_vault_key run
    vault,          \* last crypto call: plaintext, stored value, decryption result
    audit,          \* AuditLog table and the errors audit_log has logged
    deleting        \* DELETE /file requests past the guard: <<user, filename>>

vars == <<isOrgAdmin, isStaff, memberships, entries, agents, fileObjects, resp, query,
          connections, registry, sessions, issued, redeemed, env, sweep, rot, vault,
          audit, deleting, client_secrets>>
flowVars == <<registry, client_secrets, sessions, issued, redeemed>>
vaultVars == <<env, sweep, rot, vault>>
contentVars == <<entries, fileObjects>>
roleVars == <<isOrgAdmin, isStaff, memberships>>

----------------------------------------------------------------------------
(* Universe *)

Root == "root"                      \* a staff account that owns no content
Users == {"u1", "u2"}
Requesters == {"u1"}                \* the account issuing content requests
Accounts == Users \cup {Root}
AdminActors == Requesters \cup {Root}  \* accounts calling the admin endpoints
Teams == {"t1", "t2"}
GhostSlug == "ghost"                \* a slug no Team row carries
NoSlug == "noslug"                  \* team_slug omitted from the request
Slugs == Teams \cup {GhostSlug, NoSlug}
Roles == {"member", "team_lead", "admin"}
NoRole == "norole"
NoUser == "nouser"
NoTeam == "noteam"
NoAgent == "noagent"
Agents == {"a1", "a2"}
Files == {"f1", "f2"}
NoFile == "nofile"                  \* file_path omitted from the request

MaxEntries == 3                     \* rows the Entry table may hold

\* Entry.file_type / Entry.file_source of the rows indexed from each path.
FileType == [f \in Files |-> IF f = "f1" THEN "markdown" ELSE "pdf"]
FileSource == [f \in Files |-> "computer"]
ContentTypes == {"all", "markdown", "pdf"}
ContentSources == {"computer", "notion"}

PRIVATE == "private"
TEAM == "team"
ORGANIZATION == "org"
Visibilities == {PRIVATE, TEAM, ORGANIZATION}

ROLE_HIERARCHY == [r \in Roles |->
    IF r = "member" THEN 0 ELSE IF r = "team_lead" THEN 1 ELSE 2]

VisRank == [v \in Visibilities |->
    IF v = PRIVATE THEN 0 ELSE IF v = TEAM THEN 1 ELSE 2]

----------------------------------------------------------------------------
(* Role resolution *)

IsAdmin(user) == user \in isOrgAdmin \/ user \in isStaff

\* TeamMembership.objects.filter(user=user, team=team).first(): the role of
\* the row, or none.
get_user_role_in_team(user, team) ==
    IF <<user, team>> \in DOMAIN memberships THEN memberships[<<user, team>>] ELSE NoRole

IsMember(user, team) == memberships[<<user, team>>] # NoRole

\* Faulty variant of get_user_team_ids: only the teams the user leads.
get_user_team_ids_LeadsOnly(user) ==
    IF user = NoUser THEN {}
    ELSE {t \in Teams : memberships[<<user, t>>] \in {"team_lead", "admin"}}

get_user_team_ids(user) ==
    IF user = NoUser THEN {} ELSE {t \in Teams : memberships[<<user, t>>] # NoRole}

\* ROLE_HIERARCHY.get(role, 0)
RoleLevel(role) == IF role \in DOMAIN ROLE_HIERARCHY THEN ROLE_HIERARCHY[role] ELSE 0

\* What require_team_role hands back: the pair (user, team) with status 200,
\* or the HTTPException it raises.
RoleCheck(status, detail, user, team) ==
    [status |-> status, detail |-> detail, user |-> user, team |-> team]

\* Faulty variant of require_team_role: org admins and staff need a
\* membership like everybody else.
require_team_role_NoBypass(user, team_slug, min_role) ==
    IF user = NoUser
    THEN RoleCheck(401, "Authentication required", NoUser, NoTeam)
    ELSE IF team_slug \notin Teams
    THEN RoleCheck(404, "Team not found", NoUser, NoTeam)
    ELSE IF get_user_role_in_team(user, team_slug) = NoRole
    THEN RoleCheck(403, "Not a member of this team", NoUser, NoTeam)
    ELSE IF RoleLevel(get_user_role_in_team(user, team_slug)) < RoleLevel(min_role)
    THEN RoleCheck(403, "Requires role or higher", NoUser, NoTeam)
    ELSE RoleCheck(200, "", user, team_slug)

\* Faulty variant of require_team_role: a team is not shown to exist to
\* those who are not in it.
require_team_role_HidesTeam(user, team_slug, min_role) ==
    IF user = NoUser
    THEN RoleCheck(401, "Authentication required", NoUser, NoTeam)
    ELSE IF IsAdmin(user)
    THEN IF team_slug \notin Teams
         THEN RoleCheck(404, "Team not found", NoUser, NoTeam)
         ELSE RoleCheck(200, "", user, team_slug)
    ELSE IF team_slug \notin Teams
    THEN RoleCheck(404, "Team not found", NoUser, NoTeam)
    ELSE IF get_user_role_in_team(user, team_slug) = NoRole
    THEN RoleCheck(404, "Team not found", NoUser, NoTeam)
    ELSE IF RoleLevel(get_user_role_in_team(user, team_slug)) < RoleLevel(min_role)
    THEN RoleCheck(403, "Requires role or higher", NoUser, NoTeam)
    ELSE RoleCheck(200, "", user, team_slug)

\* require_team_role(request, team_slug, min_role); an unauthenticated
\* request is the user NoUser.
require_team_role(user, team_slug, min_role) ==
    IF user = NoUser
    THEN RoleCheck(401, "Authentication required", NoUser, NoTeam)
    ELSE IF IsAdmin(user)
    THEN IF team_slug \notin Teams
         THEN RoleCheck(404, "Team not found", NoUser, NoTeam)
         ELSE RoleCheck(200, "", user, team_slug)
    ELSE IF team_slug \notin Teams
    THEN RoleCheck(404, "Team not found", NoUser, NoTeam)
    ELSE IF get_user_role_in_team(user, team_slug) = NoRole
    THEN RoleCheck(403, "Not a member of this team", NoUser, NoTeam)
    ELSE IF RoleLevel(get_user_role_in_team(user, team_slug)) < RoleLevel(min_role)
    THEN RoleCheck(403, "Requires role or higher", NoUser, NoTeam)
    ELSE RoleCheck(200, "", user, team_slug)

----------------------------------------------------------------------------
(* Responses *)

Resp(op, status, msg, team) == [op |-> op, status |-> status, msg |-> msg, team |-> team]
NoResp == Resp("none", 0, "", NoTeam)

MsgAdminsOnlyDelete == "Only admins can delete org-wide content"
MsgTeamLeadDelete == "Requires team_lead role or higher to delete team content"
MsgAdminsOnlyUpload == "Only admins can upload org-wide content"
MsgAdminsOnlyShare == "Only admins can share to organization"
MsgNotMember == "You are not a member of this team"
MsgTeamNotFound == "Team not found"
MsgSlugRequired == "team_slug required"
MsgBadVisibility == "invalid visibility"
MsgMissingParams == "file_path and visibility are required"
MsgNoEntries == "No entries found for this file"
MsgAdminRequired == "admin required"

----------------------------------------------------------------------------
(* Entry rows *)

Entry(user, agent, file, visibility, team, shared_by) ==
    [user |-> user, agent |-> agent, file |-> file, visibility |-> visibility,
     team |-> team, shared_by |-> shared_by]

\* Entry.objects.create(...): the model validation refuses a team-visible
\* row without a team ("Team-visible entries must have a team assigned");
\* any other row is inserted.
create_entry(tbl, row) ==
    IF row.visibility = TEAM /\ row.team = NoTeam
    THEN [raised |-> TRUE, entries |-> tbl]
    ELSE [raised |-> FALSE, entries |-> tbl \cup {row}]

\* DbEntry.objects.filter(user=user, file_path=filename)
EntriesByFile(user, filename) == {e \in entries : e.user = user /\ e.file = filename}

\* DbEntry.objects.filter(user=user, file_path__in=files)
EntriesByFiles(user, files) == {e \in entries : e.user = user /\ e.file \in files}

\* DbEntry.objects.filter(user=user) / filter(user=user, file_type=content_type)
EntriesByType(user, content_type) ==
    IF content_type = "all" THEN {e \in entries : e.user = user}
    ELSE {e \in entries : e.user = user /\ FileType[e.file] = content_type}

\* DbEntry.objects.filter(user=user, file_source=content_source)
EntriesBySource(user, content_source) ==
    {e \in entries : e.user = user /\ FileSource[e.file] = content_source}

----------------------------------------------------------------------------
(* Delete guard: _check_delete_permission_for_entries *)

Granted == [ok |-> TRUE, msg |-> "", team |-> NoTeam]
Denied(msg, team) == [ok |-> FALSE, msg |-> msg, team |-> team]

\* Faulty variant of the delete guard: is_admin forgets the staff flag.
CheckDeletePermission_IgnoresStaff(user, entries_qs) ==
    LET is_admin == user \in isOrgAdmin
        has_org_entries == \E e \in entries_qs : e.visibility = ORGANIZATION
        team_ids == {e.team : e \in {x \in entries_qs : x.visibility = TEAM}}
        failing == {t \in team_ids :
                        /\ t \in Teams
                        /\ LET role == get_user_role_in_team(user, t)
                           IN  \/ role = NoRole
                               \/ ROLE_HIERARCHY[role] < ROLE_HIERARCHY["team_lead"]}
    IN  IF has_org_entries /\ ~is_admin
        THEN {Denied(MsgAdminsOnlyDelete, NoTeam)}
        ELSE IF ~is_admin /\ failing # {}
        THEN {Denied(MsgTeamLeadDelete, t) : t \in failing}
        ELSE {Granted}

\* Faulty variant of the delete guard: any membership passes the team check.
CheckDeletePermission_MembersPass(user, entries_qs) ==
    LET is_admin == IsAdmin(user)
        has_org_entries == \E e \in entries_qs : e.visibility = ORGANIZATION
        team_ids == {e.team : e \in {x \in entries_qs : x.visibility = TEAM}}
        failing == {t \in team_ids :
                        t \in Teams /\ get_user_role_in_team(user, t) = NoRole}
    IN  IF has_org_entries /\ ~is_admin
        THEN {Denied(MsgAdminsOnlyDelete, NoTeam)}
        ELSE IF ~is_admin /\ failing # {}
        THEN {Denied(MsgTeamLeadDelete, t) : t \in failing}
        ELSE {Granted}

\* The set of verdicts the guard can return for the queryset: the team loop
\* raises at the first failing team of an unordered DISTINCT query, so any
\* failing team may be the one named.
CheckDeletePermission(user, entries_qs) ==
    LET is_admin == IsAdmin(user)
        has_org_entries == \E e \in entries_qs : e.visibility = ORGANIZATION
        team_entries == {e \in entries_qs : e.visibility = TEAM}
        team_ids == {e.team : e \in team_entries}
        failing == {t \in team_ids :
                        /\ t # NoTeam
                        /\ t \in Teams
                        /\ LET role == get_user_role_in_team(user, t)
                           IN  \/ role = NoRole
                               \/ ROLE_HIERARCHY[role] < ROLE_HIERARCHY["team_lead"]}
    IN  IF has_org_entries /\ ~is_admin
        THEN {Denied(MsgAdminsOnlyDelete, NoTeam)}
        ELSE IF ~is_admin /\ failing # {}
        THEN {Denied(MsgTeamLeadDelete, t) : t \in failing}
        ELSE {Granted}

----------------------------------------------------------------------------
(* Adapters the handlers call after the guard *)

\* EntryAdapters.adelete_entry_by_file / adelete_entries_by_filenames
DeleteEntriesByFiles(tbl, user, files) ==
    {e \in tbl : ~(e.user = user /\ e.file \in files)}

\* EntryAdapters.adelete_all_entries(user, file_type=..)
DeleteEntriesByType(tbl, user, content_type) ==
    IF content_type = "all" THEN {e \in tbl : e.user # user}
    ELSE {e \in tbl : ~(e.user = user /\ FileType[e.file] = content_type)}

\* EntryAdapters.adelete_all_entries(user, file_source=..)
DeleteEntriesBySource(tbl, user, content_source) ==
    {e \in tbl : ~(e.user = user /\ FileSource[e.file] = content_source)}

\* FileObjectAdapters.adelete_file_object_by_name / adelete_file_objects_by_names
DeleteFileObjects(tbl, user, files) ==
    {fo \in tbl : ~(fo[1] = user /\ fo[2] \in files)}

\* EntryAdapters.get_all_filenames_by_type / get_all_filenames_by_source
FilenamesByType(user, content_type) ==
    {e.file : e \in {x \in entries : x.user = user /\ FileType[x.file] = content_type}}
FilenamesBySource(user, content_source) ==
    {e.file : e \in {x \in entries : x.user = user /\ FileSource[x.file] = content_source}}

Outcome(e, fo, r) == [entries |-> e, fileObjects |-> fo, resp |-> r]

\* Status of a delete that went through: the decorators of /file and /files
\* declare 201, those of /type and /source 200.
DeleteStatus(op) == IF op \in {"delete_file", "delete_files"} THEN 201 ELSE 200

\* Faulty variant of GuardedDelete: the deletion runs before the verdict is
\* looked at.
GuardedDelete_DeletesFirst(op, v, e, fo) ==
    IF v.ok THEN Outcome(e, fo, Resp(op, DeleteStatus(op), "", NoTeam))
    ELSE Outcome(e, fo, Resp(op, 403, v.msg, v.team))

\* The handler's result when the guard's verdict is v and the deletion,
\* reached only on a grant, would leave the tables e and fo.
GuardedDelete(op, v, e, fo) ==
    IF v.ok THEN Outcome(e, fo, Resp(op, DeleteStatus(op), "", NoTeam))
    ELSE Outcome(entries, fileObjects, Resp(op, 403, v.msg, v.team))

----------------------------------------------------------------------------
(* Delete handlers *)

\* DELETE /file
delete_content_files(user, filename) ==
    {GuardedDelete("delete_file", v,
                   DeleteEntriesByFiles(entries, user, {filename}),
                   DeleteFileObjects(fileObjects, user, {filename}))
        : v \in CheckDeletePermission(user, EntriesByFile(user, filename))}

\* DELETE /files
delete_content_file(user, files) ==
    {GuardedDelete("delete_files", v,
                   DeleteEntriesByFiles(entries, user, files),
                   DeleteFileObjects(fileObjects, user, files))
        : v \in CheckDeletePermission(user, EntriesByFiles(user, files))}

\* DELETE /type/{content_type}
delete_content_type(user, content_type) ==
    IF content_type \notin ContentTypes
    THEN {Outcome(entries, fileObjects, Resp("delete_type", 500, "Unsupported content type", NoTeam))}
    ELSE {GuardedDelete("delete_type", v,
                   DeleteEntriesByType(entries, user, content_type),
                   IF content_type = "all" THEN fileObjects
                   ELSE DeleteFileObjects(fileObjects, user, FilenamesByType(user, content_type)))
            : v \in CheckDeletePermission(user, EntriesByType(user, content_type))}

\* DELETE /source/{content_source}
delete_content_source(user, content_source) ==
    {IF v.ok /\ content_source \notin ContentSources
     THEN Outcome(entries, fileObjects, Resp("delete_source", 500, "Invalid content source", NoTeam))
     ELSE GuardedDelete("delete_source", v,
                   DeleteEntriesBySource(entries, user, content_source),
                   IF content_source = "computer"
                   THEN DeleteFileObjects(fileObjects, user, FilenamesBySource(user, content_source))
                   ELSE fileObjects)
        : v \in CheckDeletePermission(user, EntriesBySource(user, content_source))}

----------------------------------------------------------------------------
(* Upload: indexer (PUT = regenerate, PATCH = sync) *)

\* helpers.configure_content as the handler uses it: the rows indexed from
\* the uploaded file carry the requested visibility and the resolved team.
\* A regenerate drops the user's previous rows; a sync either keeps the rows
\* of the file (content unchanged) or replaces them.
ConfigureContent(user, file, regenerate, visibility, resolved_team) ==
    LET new == Entry(user, NoAgent, file, visibility, resolved_team, NoUser)
        bases == IF regenerate
                 THEN {{e \in entries : e.user # user}}
                 ELSE {entries, {e \in entries : ~(e.user = user /\ e.file = file)}}
        fos == IF regenerate
               THEN {fo \in fileObjects : fo[1] # user} \cup {<<user, file>>}
               ELSE fileObjects \cup {<<user, file>>}
    IN  {Outcome(b \cup {new}, fos, Resp("upload", 200, "", NoTeam)) : b \in bases}

\* Faulty variant of indexer: the membership check of a team upload is gone.
indexer_TeamUnguarded(user, file, regenerate, visibility, team_slug) ==
    LET deny(status, msg) == {Outcome(entries, fileObjects, Resp("upload", status, msg, NoTeam))}
        is_admin == user \in isOrgAdmin \/ user \in isStaff
    IN  IF visibility \notin {"private", "team", "org"}
        THEN deny(400, MsgBadVisibility)
        ELSE IF visibility = "team" /\ team_slug = NoSlug
        THEN deny(400, MsgSlugRequired)
        ELSE IF visibility = "org" /\ ~is_admin
        THEN deny(403, MsgAdminsOnlyUpload)
        ELSE IF visibility = "team" /\ team_slug \notin Teams
        THEN deny(404, MsgTeamNotFound)
        ELSE ConfigureContent(user, file, regenerate, visibility,
                              IF visibility = "team" THEN team_slug ELSE NoTeam)

indexer(user, file, regenerate, visibility, team_slug) ==
    LET deny(status, msg) == {Outcome(entries, fileObjects, Resp("upload", status, msg, NoTeam))}
        is_admin == user \in isOrgAdmin \/ user \in isStaff
    IN  IF visibility \notin {"private", "team", "org"}
        THEN deny(400, MsgBadVisibility)
        ELSE IF visibility = "team" /\ team_slug = NoSlug
        THEN deny(400, MsgSlugRequired)
        ELSE IF visibility = "org" /\ ~is_admin
        THEN deny(403, MsgAdminsOnlyUpload)
        ELSE IF visibility = "team" /\ team_slug \notin Teams
        THEN deny(404, MsgTeamNotFound)
        ELSE IF visibility = "team" /\ ~IsMember(user, team_slug) /\ ~is_admin
        THEN deny(403, MsgNotMember)
        ELSE ConfigureContent(user, file, regenerate, visibility,
                              IF visibility = "team" THEN team_slug ELSE NoTeam)

----------------------------------------------------------------------------
(* Share: share_content *)

\* Faulty variant of the update: the team reference is never written.
UpdateEntries_KeepsTeam(tbl, user, file_path, target_visibility, target_team) ==
    {IF e.user = user /\ e.file = file_path
     THEN [e EXCEPT !.visibility = target_visibility, !.shared_by = user]
     ELSE e : e \in tbl}

\* Faulty variant of the update: the sharing account is not recorded.
UpdateEntries_NoAudit(tbl, user, file_path, target_visibility, target_team) ==
    {IF e.user = user /\ e.file = file_path
     THEN [e EXCEPT !.visibility = target_visibility,
                    !.team = IF target_team # NoTeam THEN target_team ELSE @]
     ELSE e : e \in tbl}

\* DbEntry.objects.filter(user=user, file_path=file_path).update(**update_kwargs)
UpdateEntries(tbl, user, file_path, target_visibility, target_team) ==
    {IF e.user = user /\ e.file = file_path
     THEN [e EXCEPT !.visibility = target_visibility,
                    !.shared_by = user,
                    !.team = IF target_team # NoTeam THEN target_team ELSE @]
     ELSE e : e \in tbl}

\* Faulty variant of share_content: the admin check of an organization
\* share is gone.
share_content_OrgUnguarded(user, file_path, target_visibility, target_team_slug) ==
    LET deny(status, msg) == Outcome(entries, fileObjects, Resp("share", status, msg, NoTeam))
        is_admin == user \in isOrgAdmin \/ user \in isStaff
        target_team == IF target_visibility = "team" THEN target_team_slug ELSE NoTeam
        count == Cardinality(EntriesByFile(user, file_path))
    IN  IF file_path = NoFile \/ target_visibility = ""
        THEN deny(400, MsgMissingParams)
        ELSE IF target_visibility \notin {"team", "org"}
        THEN deny(400, MsgBadVisibility)
        ELSE IF target_visibility = "team" /\ target_team_slug = NoSlug
        THEN deny(400, MsgSlugRequired)
        ELSE IF target_visibility = "team" /\ target_team_slug \notin Teams
        THEN deny(404, MsgTeamNotFound)
        ELSE IF target_visibility = "team" /\ ~IsMember(user, target_team_slug) /\ ~is_admin
        THEN deny(403, MsgNotMember)
        ELSE IF count = 0
        THEN deny(404, MsgNoEntries)
        ELSE Outcome(UpdateEntries(entries, user, file_path, target_visibility, target_team),
                     fileObjects, Resp("share", 200, "", NoTeam))

share_content(user, file_path, target_visibility, target_team_slug) ==
    LET deny(status, msg) == Outcome(entries, fileObjects, Resp("share", status, msg, NoTeam))
        is_admin == user \in isOrgAdmin \/ user \in isStaff
        target_team == IF target_visibility = "team" THEN target_team_slug ELSE NoTeam
        count == Cardinality(EntriesByFile(user, file_path))
    IN  IF file_path = NoFile \/ target_visibility = ""
        THEN deny(400, MsgMissingParams)
        ELSE IF target_visibility \notin {"team", "org"}
        THEN deny(400, MsgBadVisibility)
        ELSE IF target_visibility = "org" /\ ~is_admin
        THEN deny(403, MsgAdminsOnlyShare)
        ELSE IF target_visibility = "team" /\ target_team_slug = NoSlug
        THEN deny(400, MsgSlugRequired)
        ELSE IF target_visibility = "team" /\ target_team_slug \notin Teams
        THEN deny(404, MsgTeamNotFound)
        ELSE IF target_visibility = "team" /\ ~IsMember(user, target_team_slug) /\ ~is_admin
        THEN deny(403, MsgNotMember)
        ELSE IF count = 0
        THEN deny(404, MsgNoEntries)
        ELSE Outcome(UpdateEntries(entries, user, file_path, target_visibility, target_team),
                     fileObjects, Resp("share", 200, "", NoTeam))

----------------------------------------------------------------------------
(* Admin endpoints of api_admin.py that change what the guards read *)

require_admin(actor) == actor \in isOrgAdmin \/ actor \in isStaff

add_team_member(actor, slug, user, role) ==
    IF ~require_admin(actor) THEN [m |-> memberships, resp |-> Resp("admin", 403, MsgAdminRequired, NoTeam)]
    ELSE IF slug \notin Teams THEN [m |-> memberships, resp |-> Resp("admin", 404, MsgTeamNotFound, NoTeam)]
    ELSE IF memberships[<<user, slug>>] # NoRole
    THEN [m |-> memberships, resp |-> Resp("admin", 409, "already a member", NoTeam)]
    ELSE IF role \notin Roles
    THEN [m |-> memberships, resp |-> Resp("admin", 400, "Invalid role", NoTeam)]
    ELSE [m |-> [memberships EXCEPT ![<<user, slug>>] = role], resp |-> Resp("admin", 201, "", NoTeam)]

remove_team_member(actor, slug, user) ==
    IF ~require_admin(actor) THEN [m |-> memberships, resp |-> Resp("admin", 403, MsgAdminRequired, NoTeam)]
    ELSE IF slug \notin Teams THEN [m |-> memberships, resp |-> Resp("admin", 404, MsgTeamNotFound, NoTeam)]
    ELSE IF memberships[<<user, slug>>] = NoRole
    THEN [m |-> memberships, resp |-> Resp("admin", 404, "not a member", NoTeam)]
    ELSE [m |-> [memberships EXCEPT ![<<user, slug>>] = NoRole], resp |-> Resp("admin", 200, "", NoTeam)]

update_user(actor, user, is_org_admin) ==
    IF ~require_admin(actor) THEN [a |-> isOrgAdmin, resp |-> Resp("admin", 403, MsgAdminRequired, NoTeam)]
    ELSE [a |-> IF is_org_admin THEN isOrgAdmin \cup {user} ELSE isOrgAdmin \ {user},
          resp |-> Resp("admin", 200, "", NoTeam)]

----------------------------------------------------------------------------
(* Read access: build_entry_access_filter and get_all_accessible_agents *)

\* An Agent row: its creator (NoUser for an admin-managed agent), privacy
\* level and team. It carries the field names of an entry row so that one
\* predicate reads both.
AgentRow(creator, privacy_level, team) ==
    [user |-> creator, agent |-> NoAgent, visibility |-> privacy_level, team |-> team]

\* A content item is owned by a user (its creator, for an agent row) or by
\* an agent; an admin-managed item has neither.
HasOwner(item) == item.user # NoUser \/ item.agent # NoAgent

\* Faulty variant of VisibilityClauses: the private clause forgets the owner.
VisibilityClauses_PrivateUnowned(user, item) ==
    \/ item.visibility = ORGANIZATION /\ (user # NoUser \/ ~HasOwner(item))
    \/ user # NoUser /\ item.visibility = PRIVATE
    \/ user # NoUser /\ item.visibility = TEAM /\ item.team \in get_user_team_ids(user)

\* Faulty variant of VisibilityClauses: the organization clause forgets the
\* restriction of anonymous callers to ownerless items.
VisibilityClauses_OrgToAnyone(user, item) ==
    \/ item.visibility = ORGANIZATION
    \/ user # NoUser /\ item.visibility = PRIVATE /\ item.user = user
    \/ user # NoUser /\ item.visibility = TEAM /\ item.team \in get_user_team_ids(user)

\* The three visibility clauses, OR-ed: organization rows for an
\* authenticated principal (for an anonymous one only those without owner),
\* the principal's own private rows, team rows of the principal's teams.
VisibilityClauses(user, item) ==
    \/ item.visibility = ORGANIZATION /\ (user # NoUser \/ ~HasOwner(item))
    \/ user # NoUser /\ item.visibility = PRIVATE /\ item.user = user
    \/ user # NoUser /\ item.visibility = TEAM /\ item.team \in get_user_team_ids(user)

\* Faulty variant of build_entry_access_filter: without user and agent the
\* filter is the empty condition, which every row satisfies.
build_entry_access_filter_EmptyCondition(user, agent, e) ==
    IF user = NoUser /\ agent = NoAgent THEN TRUE
    ELSE IF agent # NoAgent THEN e.agent = agent
    ELSE VisibilityClauses(user, e)

\* Faulty variant of build_entry_access_filter: the agent's rows are still
\* subject to the visibility clauses of the user passed along.
build_entry_access_filter_AgentByTier(user, agent, e) ==
    IF user = NoUser /\ agent = NoAgent THEN FALSE
    ELSE IF agent # NoAgent THEN e.agent = agent /\ VisibilityClauses(user, e)
    ELSE VisibilityClauses(user, e)

\* build_entry_access_filter(user, agent) applied to an entry row.
build_entry_access_filter(user, agent, e) ==
    IF user = NoUser /\ agent = NoAgent THEN FALSE
    ELSE IF agent # NoAgent THEN e.agent = agent
    ELSE VisibilityClauses(user, e)

\* AgentAdapters.get_all_accessible_agents(user) applied to an agent row.
get_all_accessible_agents(user, a) == VisibilityClauses(user, a)

----------------------------------------------------------------------------
(* CryptoVault: utils/crypto.py *)

Procs == {"server", "command"}      \* the web process and the management command
K1 == "k1"                          \* a master key of exactly 32 characters
K2 == "k2"                          \* another master key, longer than 32 characters
ShortKey == "short"                 \* a key of 31 characters
UnsetKey == ""                      \* the variable is not set
MasterKeys == {K1, K2}
EnvKeys == MasterKeys \cup {ShortKey, UnsetKey}
MinKeyLength == 32
KeyLength(k) == IF k = K1 THEN 32 ELSE IF k = K2 THEN 40 ELSE IF k = ShortKey THEN 31 ELSE 0
TokenContext == "mcp-token-encryption"

\* What a crypto call hands back: a stored value, a plaintext or an exception.
Sealed(key, data) == [tag |-> "enc", key |-> key, data |-> data]
Plain(text) == [tag |-> "plain", text |-> text]
Raised(error) == [tag |-> "raise", error |-> error]
NoToken == [tag |-> "none"]
Garbled == [tag |-> "garbled"]      \* a stored value that is no output of encrypt_token

\* str.encode() / bytes.decode(): the bytes AES-GCM seals.
EAcute == "e-acute"                 \* the one-character string U+00E9
Texts == {"", "at1", "at2", "rt1", "rt2", "cs1", EAcute}
Utf8(text) ==
    CASE text = "" -> << >>
      [] text = "at1" -> <<97, 116, 49>>
      [] text = "at2" -> <<97, 116, 50>>
      [] text = "rt1" -> <<114, 116, 49>>
      [] text = "rt2" -> <<114, 116, 50>>
      [] text = "cs1" -> <<99, 115, 49>>
      [] text = EAcute -> <<195, 169>>
Encode(text) == Utf8(text)
Decode(bytes) == CHOOSE text \in Texts : Utf8(text) = bytes

\* Faulty variant of get_master_key: the key read when the process started
\* is kept.
get_master_key_Cached(proc) == Plain(K1)

\* Faulty variant of get_master_key: whatever the environment holds is
\* handed on.
get_master_key_Unchecked(proc) == Plain(env[proc])

\* _get_master_key: the key of the calling process, or ValueError.
get_master_key(proc) ==
    IF env[proc] = UnsetKey \/ KeyLength(env[proc]) < MinKeyLength
    THEN Raised("ValueError")
    ELSE Plain(env[proc])

\* HKDF-SHA256 of the master key with info = context: deterministic, and
\* different for different master keys or contexts.
derive_key(master_key, context) == <<"hkdf", master_key, context>>

\* AESGCM(key).encrypt(nonce, data, None), base64 of nonce + ciphertext. The
\* nonce is left out of the stored value: nothing below reads it.
AESGCM_encrypt(key, data) == Sealed(key, data)

\* A stored value of which some character has been changed.
Alter(value) == [tag |-> "altered", key |-> value.key, data |-> value.data]

\* Faulty variant of AESGCM_decrypt: the tag is not verified.
AESGCM_decrypt_Unauthenticated(key, value) ==
    IF value.tag \in {"enc", "altered"} THEN Plain(Decode(value.data))
    ELSE Raised("InvalidTag")

\* base64 decode, split, AESGCM(key).decrypt(nonce, ct, None): the data when
\* the value was sealed under this key, InvalidTag otherwise.
AESGCM_decrypt(key, value) ==
    IF value.tag = "enc" /\ value.key = key THEN Plain(Decode(value.data))
    ELSE Raised("InvalidTag")

encrypt_token(proc, plaintext) ==
    LET master == get_master_key(proc)
    IN  IF master.tag = "raise" THEN master
        ELSE AESGCM_encrypt(derive_key(master.text, TokenContext), Encode(plaintext))

\* Faulty variant of decrypt_token: the key is derived under another
\* context label than the one encrypt_token uses.
decrypt_token_OtherContext(proc, encrypted) ==
    LET master == get_master_key(proc)
    IN  IF master.tag = "raise" THEN master
        ELSE AESGCM_decrypt(derive_key(master.text, "mcp-client-secret"), encrypted)

decrypt_token(proc, encrypted) ==
    LET master == get_master_key(proc)
    IN  IF master.tag = "raise" THEN master
        ELSE AESGCM_decrypt(derive_key(master.text, TokenContext), encrypted)

\* The stored value decrypts to this plaintext under this master key.
DecryptsUnder(master_key, value, plaintext) ==
    AESGCM_decrypt(derive_key(master_key, TokenContext), value) = Plain(plaintext)

----------------------------------------------------------------------------
(* MCP connections: McpUserConnection rows *)

Services == {"s1"}
UnknownService == "s9"              \* a service id no row refers to
NoService == "noservice"
NoRow == [status |-> "norow"]
NoError == ""
CONNECTED == "connected"
ERROR == "error"
REVOKED == "revoked"

AccessTokens == {"at1", "at2"}      \* access tokens the provider issues
RefreshTokens == {"rt1", "rt2"}     \* refresh tokens the provider issues
Expiries == {"soon", "later"}       \* token_expires_at: within / beyond the 1-hour lookahead
FlowUsers == {"u1"}                 \* the user who connects services
States == {"st1", "st2"}            \* values of secrets.token_urlsafe(32)
NoState == ""                       \* state absent from the query string
Codes == {"c1"}                     \* authorization codes
NoCode == ""                        \* code absent from the query string
ProviderErrors == {"access_denied"} \* error parameter of the redirect
NoProviderError == ""

Connection(status, access_token, refresh_token, token_expires_at, error_message) ==
    [status |-> status, access_token |-> access_token, refresh_token |-> refresh_token,
     token_expires_at |-> token_expires_at, error_message |-> error_message]

NoConnections == [p \in Users \X Services |-> NoRow]
NoSessions == [u \in Users |-> {}]

\* McpUserConnection.objects.filter(user=user, service_id=service_id).first()
ConnectionOf(user, service_id) ==
    IF <<user, service_id>> \in DOMAIN connections THEN connections[<<user, service_id>>]
    ELSE NoRow

ConnOutcome(c, r) == [connections |-> c, resp |-> r]

----------------------------------------------------------------------------
(* Connect and callback: api_mcp.initiate_mcp_connection, McpOAuthClient,  *)
(* auth_mcp.mcp_oauth_callback                                             *)

\* What the provider does with a token request. The kinds: a 200 answer
\* with tokens, a discovery GET that raises, a non-200 answer, a timeout of
\* the POST, a 200 answer without access_token, and a request that is
\* cancelled while it waits for the provider (CancelledError, which no
\* "except Exception" catches).
Answer(kind, access, refresh, expires) ==
    [kind |-> kind, access |-> access, refresh |-> refresh, expires |-> expires]
FailedAnswers == {Answer(k, "", "", "") : k \in {"discovery_error", "non200", "timeout"}}
BrokenAnswers == {Answer("no_access_token", "", "", "")}
CancelledAnswers == {Answer("cancelled", "", "", "")}
RaisingKinds == {"discovery_error", "timeout", "cancelled"}

FlowOutcome(c, ses, red, r) ==
    [connections |-> c, sessions |-> ses, redeemed |-> red, resp |-> r]

\* The redirect (or the 500) a callback answers with, and whether it called
\* exchange_code.
CallbackResp(status, tag, user, state, exchanged) ==
    [op |-> "callback", status |-> status, msg |-> tag, team |-> NoTeam,
     user |-> user, state |-> state, exchanged |-> exchanged]

\* Faulty variant of start_auth_flow: the session keeps one pending state
\* per service, a new attempt replaces the earlier one.
start_auth_flow_OnePending(user, service, state, client_id) ==
    LET stored == [sessions EXCEPT ![user] =
                      {b \in @ : b[2] # service} \cup {<<state, service>>}]
    IN  IF client_id = ""
        THEN FlowOutcome(connections, stored, redeemed,
                         Resp("connect", 500, "No client_id configured", NoTeam))
        ELSE FlowOutcome(connections, stored, redeemed,
                         Resp("connect", 200, "authorization_url", NoTeam))

\* McpOAuthClient.start_auth_flow: the verifier and the service binding go
\* into the session under the new state before the client id is looked at.
start_auth_flow(user, service, state, client_id) ==
    LET stored == [sessions EXCEPT ![user] = @ \cup {<<state, service>>}]
    IN  IF client_id = ""
        THEN FlowOutcome(connections, stored, redeemed,
                         Resp("connect", 500, "No client_id configured", NoTeam))
        ELSE FlowOutcome(connections, stored, redeemed,
                         Resp("connect", 200, "authorization_url", NoTeam))

\* POST /connect/{service_id}
initiate_mcp_connection(user, service_id, state, client_id) ==
    IF service_id \notin registry
    THEN FlowOutcome(connections, sessions, redeemed,
                     Resp("connect", 404, "Service not found or disabled", NoTeam))
    ELSE start_auth_flow(user, service_id, state, client_id)

\* A registry in which no service has a client secret.
NoSecrets == [id \in Services |-> NoToken]

\* POST /services: the client secret, when the body has one, is stored
\* sealed under the server's master key; acreate gives the row a new id.
create_mcp_service(actor, service_id, oauth_client_secret) ==
    LET encrypted_secret == IF oauth_client_secret = "" THEN NoToken
                            ELSE encrypt_token("server", oauth_client_secret)
        out(reg, secrets, status, msg) ==
            [registry |-> reg, client_secrets |-> secrets,
             resp |-> Resp("create_service", status, msg, NoTeam)]
    IN  IF ~require_admin(actor) THEN out(registry, client_secrets, 403, MsgAdminRequired)
        ELSE IF encrypted_secret.tag = "raise"
        THEN out(registry, client_secrets, 500, encrypted_secret.error)
        ELSE out(registry \cup {service_id},
                 [client_secrets EXCEPT ![service_id] = encrypted_secret],
                 200, "created")

\* The client secret exchange_code and refresh_access_token put in the token
\* request: none when the service has none, else decrypt_token of the stored
\* value, which raises when it was sealed under another master key.
client_secret(service_id) ==
    IF client_secrets[service_id] = NoToken THEN Plain("")
    ELSE decrypt_token("server", client_secrets[service_id])

\* McpOAuthClient.exchange_code: the token response, or an exception.
exchange_code(service, code, code_verifier, answer) ==
    IF answer.kind = "discovery_error" THEN Raised(answer.kind)
    ELSE IF service \in Services /\ client_secret(service).tag = "raise"
    THEN client_secret(service)
    ELSE IF answer.kind \in RaisingKinds THEN Raised(answer.kind)
    ELSE IF answer.kind = "non200" THEN Raised("ValueError")
    ELSE [tag |-> "tokens", access |-> answer.access, refresh |-> answer.refresh,
          expires |-> answer.expires, kind |-> answer.kind]

\* Faulty variant of mcp_oauth_callback: the row is written before the
\* outcome of the exchange is looked at.
mcp_oauth_callback_WritesFirst(user, error, code, state, answer) ==
    LET pending == {b \in sessions[user] : b[1] = state}
        popped == [sessions EXCEPT ![user] = @ \ pending]
        service_id == IF pending = {} THEN NoService ELSE (CHOOSE b \in pending : TRUE)[2]
        written == [connections EXCEPT ![<<user, service_id>>] =
                        Connection(CONNECTED, NoToken, NoToken, "soon", NoError)]
    IN  IF error # NoProviderError \/ code = NoCode \/ state = NoState \/ pending = {}
        THEN FlowOutcome(connections, sessions, redeemed,
                         CallbackResp(302, "invalid_state", user, state, FALSE))
        ELSE FlowOutcome(written, popped, redeemed \cup {<<user, state>>},
                         CallbackResp(302, "token_exchange_failed", user, state, TRUE))

\* Faulty variant of mcp_oauth_callback: the session is read with get, so
\* the state stays pending.
mcp_oauth_callback_KeepsState(user, error, code, state, answer) ==
    LET pending == {b \in sessions[user] : b[1] = state}
    IN  IF error # NoProviderError \/ code = NoCode \/ state = NoState \/ pending = {}
        THEN FlowOutcome(connections, sessions, redeemed,
                         CallbackResp(302, "invalid_state", user, state, FALSE))
        ELSE FlowOutcome(connections, sessions, redeemed \cup {<<user, state>>},
                         CallbackResp(302, "token_exchange_failed", user, state, TRUE))

\* GET /auth/mcp/callback
mcp_oauth_callback(user, error, code, state, answer) ==
    LET pending == {b \in sessions[user] : b[1] = state}
        popped == [sessions EXCEPT ![user] = @ \ pending]
        used == redeemed \cup {<<user, state>>}
        service_id == IF pending = {} THEN NoService ELSE (CHOOSE b \in pending : TRUE)[2]
        tokens == exchange_code(service_id, code, "verifier", answer)
        access_token == encrypt_token("server", tokens.access)
        refresh_token == IF tokens.refresh = "" THEN NoToken
                         ELSE encrypt_token("server", tokens.refresh)
        expires == IF tokens.expires = "" THEN "soon" ELSE tokens.expires
    IN  IF error # NoProviderError
        THEN FlowOutcome(connections, sessions, redeemed,
                         CallbackResp(302, error, user, state, FALSE))
        ELSE IF code = NoCode \/ state = NoState
        THEN FlowOutcome(connections, sessions, redeemed,
                         CallbackResp(302, "missing_params", user, state, FALSE))
        ELSE IF pending = {}
        THEN FlowOutcome(connections, sessions, redeemed,
                         CallbackResp(302, "invalid_state", user, state, FALSE))
        ELSE IF service_id \notin registry
        THEN FlowOutcome(connections, popped, used,
                         CallbackResp(302, "service_not_found", user, state, FALSE))
        ELSE IF tokens.tag = "raise" /\ tokens.error = "cancelled"
        THEN FlowOutcome(connections, popped, used,
                         CallbackResp(500, "CancelledError", user, state, TRUE))
        ELSE IF tokens.tag = "raise"
        THEN FlowOutcome(connections, popped, used,
                         CallbackResp(302, "token_exchange_failed", user, state, TRUE))
        ELSE IF tokens.kind = "no_access_token"
        THEN FlowOutcome(connections, popped, used,
                         CallbackResp(500, "KeyError", user, state, TRUE))
        ELSE IF access_token.tag = "raise" \/ refresh_token.tag = "raise"
        THEN FlowOutcome(connections, popped, used,
                         CallbackResp(500, "ValueError", user, state, TRUE))
        ELSE FlowOutcome(
                [connections EXCEPT ![<<user, service_id>>] =
                    Connection(CONNECTED, access_token, refresh_token, expires, NoError)],
                popped, used,
                CallbackResp(302, "mcp_connected", user, state, TRUE))

\* DELETE /services/{service_id}. The on_delete rule of the connection's
\* service key is not part of the sources: the rows of the service go with
\* it (cascade TRUE) or protect it from deletion (cascade FALSE).
delete_mcp_service(actor, service_id, cascade) ==
    LET rows == {p \in DOMAIN connections : p[2] = service_id /\ connections[p] # NoRow}
        out(reg, c, status, msg) ==
            [registry |-> reg, connections |-> c, resp |-> Resp("delete_service", status, msg, NoTeam)]
    IN  IF ~require_admin(actor) THEN out(registry, connections, 403, MsgAdminRequired)
        ELSE IF service_id \notin registry THEN out(registry, connections, 404, "Service not found")
        ELSE IF rows # {} /\ ~cascade THEN out(registry, connections, 500, "ProtectedError")
        ELSE out(registry \ {service_id},
                 [p \in DOMAIN connections |-> IF p \in rows THEN NoRow ELSE connections[p]],
                 200, "deleted")

----------------------------------------------------------------------------
(* Refresh: McpOAuthClient.refresh_access_token and the sweep of           *)
(* mcp_maintenance._refresh_expiring_mcp_tokens                            *)

\* What one call leaves: whether asave() ran, the object it saved, and the
\* call's result ("true", "false" or "raise").
RefreshOutcome(saved, row, result) == [saved |-> saved, row |-> row, result |-> result]

\* Faulty variant of refresh_access_token: the new access token is put on
\* the row and saved before the token request, with the old refresh token
\* and the old expiry, so an interrupted request leaves a half-updated row.
refresh_access_token_SavesEarly(connection, answer) ==
    LET refresh_token == decrypt_token("server", connection.refresh_token)
        access == encrypt_token("server", "at2")
    IN  IF connection.refresh_token = NoToken
        THEN RefreshOutcome(FALSE, connection, "false")
        ELSE IF refresh_token.tag = "raise" \/ access.tag = "raise"
        THEN RefreshOutcome(FALSE, connection, "raise")
        ELSE IF answer.kind \in RaisingKinds
        THEN RefreshOutcome(TRUE, [connection EXCEPT !.access_token = access], "raise")
        ELSE IF answer.kind = "ok"
        THEN RefreshOutcome(TRUE, [connection EXCEPT !.access_token = access], "true")
        ELSE RefreshOutcome(TRUE,
                [connection EXCEPT !.status = ERROR, !.error_message = "Refresh failed"],
                "false")

\* refresh_access_token on a connection object loaded earlier.
refresh_access_token(connection, answer) ==
    LET refresh_token == decrypt_token("server", connection.refresh_token)
        access == encrypt_token("server", answer.access)
        refresh == IF answer.refresh = "" THEN connection.refresh_token
                   ELSE encrypt_token("server", answer.refresh)
    IN  IF connection.refresh_token = NoToken
        THEN RefreshOutcome(FALSE, connection, "false")
        ELSE IF refresh_token.tag = "raise"
        THEN RefreshOutcome(FALSE, connection, "raise")
        ELSE IF answer.kind \in RaisingKinds
        THEN RefreshOutcome(FALSE, connection, "raise")
        ELSE IF answer.kind = "non200"
        THEN RefreshOutcome(TRUE,
                [connection EXCEPT !.status = ERROR, !.error_message = "Refresh failed"],
                "false")
        ELSE IF answer.kind = "no_access_token"
        THEN RefreshOutcome(FALSE, connection, "raise")
        ELSE IF access.tag = "raise" \/ refresh.tag = "raise"
        THEN RefreshOutcome(FALSE, connection, "raise")
        ELSE RefreshOutcome(TRUE,
                [connection EXCEPT
                    !.access_token = access,
                    !.refresh_token = refresh,
                    !.token_expires_at = IF answer.expires = "" THEN @ ELSE answer.expires,
                    !.status = CONNECTED,
                    !.error_message = NoError],
                "true")

\* The rows one sweep selects: connected, expiring within the hour, holding
\* a refresh token.
Expiring(user, service) ==
    LET c == ConnectionOf(user, service)
    IN  c # NoRow /\ c.status = CONNECTED /\ c.token_expires_at = "soon"
            /\ c.refresh_token # NoToken

\* Faulty variant of disconnect_mcp_service: the refresh token stays.
disconnect_mcp_service_KeepsRefresh(user, service_id) ==
    LET connection == ConnectionOf(user, service_id)
    IN  IF connection = NoRow
        THEN ConnOutcome(connections, Resp("disconnect", 404, "Connection not found", NoTeam))
        ELSE ConnOutcome(
                [connections EXCEPT ![<<user, service_id>>] =
                    [connection EXCEPT !.status = REVOKED, !.access_token = NoToken]],
                Resp("disconnect", 200, "disconnected", NoTeam))

\* DELETE /connections/{service_id}
disconnect_mcp_service(user, service_id) ==
    LET connection == ConnectionOf(user, service_id)
    IN  IF connection = NoRow
        THEN ConnOutcome(connections, Resp("disconnect", 404, "Connection not found", NoTeam))
        ELSE ConnOutcome(
                [connections EXCEPT ![<<user, service_id>>] =
                    [connection EXCEPT !.status = REVOKED,
                                       !.access_token = NoToken,
                                       !.refresh_token = NoToken]],
                Resp("disconnect", 200, "disconnected", NoTeam))

----------------------------------------------------------------------------
(* Key rotation: management command rotate_vault_key *)

\* McpUserConnection.objects.exclude(access_token="").exclude(access_token__isnull=True)
Selected(table) ==
    {p \in DOMAIN table : table[p] # NoRow /\ table[p].access_token # NoToken}

\* Where a run of the command stands and what it has written to its output.
Run(pc, msg, old_key, dry_run, total) ==
    [pc |-> pc, msg |-> msg, old_key |-> old_key, dry_run |-> dry_run, total |-> total,
     todo |-> {}, loaded |-> [p \in {} |-> NoRow], success |-> 0, errors |-> 0,
     rotated |-> {}, alone |-> TRUE]

\* History of a run: another writer has changed the table since the run
\* counted its rows.
Noted(table) ==
    IF rot.pc \in {"counted", "loop", "done"} /\ table # connections
    THEN [rot EXCEPT !.alone = FALSE]
    ELSE rot

\* Faulty variant of handle: equal keys are not refused.
handle_SameKeyPasses(old_key, dry_run) ==
    LET new_key == env["command"]
        total == Cardinality(Selected(connections))
    IN  IF KeyLength(old_key) < MinKeyLength
        THEN Run("aborted", "Old key must be at least 32 characters", old_key, dry_run, 0)
        ELSE IF new_key = UnsetKey \/ KeyLength(new_key) < MinKeyLength
        THEN Run("aborted", "APOLLOS_VAULT_MASTER_KEY must be set to the new key", old_key, dry_run, 0)
        ELSE IF dry_run
        THEN Run("dry", "Dry run", old_key, dry_run, total)
        ELSE Run("counted", "Found", old_key, dry_run, total)

\* Faulty variant of handle: the dry-run flag is not looked at.
handle_IgnoresDryRun(old_key, dry_run) ==
    LET new_key == env["command"]
        total == Cardinality(Selected(connections))
    IN  IF KeyLength(old_key) < MinKeyLength
        THEN Run("aborted", "Old key must be at least 32 characters", old_key, dry_run, 0)
        ELSE IF new_key = UnsetKey \/ KeyLength(new_key) < MinKeyLength
        THEN Run("aborted", "APOLLOS_VAULT_MASTER_KEY must be set to the new key", old_key, dry_run, 0)
        ELSE IF old_key = new_key
        THEN Run("aborted", "Old and new keys are the same", old_key, dry_run, 0)
        ELSE Run("counted", "Found", old_key, dry_run, total)

\* Command.handle up to the loop: the key checks, the count, the dry run.
handle(old_key, dry_run) ==
    LET new_key == env["command"]
        total == Cardinality(Selected(connections))
    IN  IF KeyLength(old_key) < MinKeyLength
        THEN Run("aborted", "Old key must be at least 32 characters", old_key, dry_run, 0)
        ELSE IF new_key = UnsetKey \/ KeyLength(new_key) < MinKeyLength
        THEN Run("aborted", "APOLLOS_VAULT_MASTER_KEY must be set to the new key", old_key, dry_run, 0)
        ELSE IF old_key = new_key
        THEN Run("aborted", "Old and new keys are the same", old_key, dry_run, 0)
        ELSE IF dry_run
        THEN Run("dry", "Dry run", old_key, dry_run, total)
        ELSE Run("counted", "Found", old_key, dry_run, total)

\* One field of one loaded row: an empty value is skipped, any other is
\* decrypted under the key derived from --old-key and encrypted again by
\* encrypt_token, which reads the command's environment.
rotate_field(old_derived, value) ==
    LET plaintext == AESGCM_decrypt(old_derived, value)
    IN  IF value = NoToken THEN value
        ELSE IF plaintext.tag = "raise" THEN plaintext
        ELSE encrypt_token("command", plaintext.text)

\* Faulty variant of rotate_row: the refresh token is left as it is.
rotate_row_AccessOnly(conn, old_key) ==
    LET access_token == rotate_field(derive_key(old_key, TokenContext), conn.access_token)
    IN  IF access_token.tag = "raise"
        THEN [ok |-> FALSE, row |-> conn]
        ELSE [ok |-> TRUE, row |-> [conn EXCEPT !.access_token = access_token]]

\* The body of the loop for one loaded row, up to the save: both fields or
\* an exception.
rotate_row(conn, old_key) ==
    LET old_derived == derive_key(old_key, TokenContext)
        access_token == rotate_field(old_derived, conn.access_token)
        refresh_token == rotate_field(old_derived, conn.refresh_token)
    IN  IF access_token.tag = "raise" \/ refresh_token.tag = "raise"
        THEN [ok |-> FALSE, row |-> conn]
        ELSE [ok |-> TRUE,
              row |-> [conn EXCEPT !.access_token = access_token,
                                   !.refresh_token = refresh_token]]

\* conn.save(update_fields=["access_token", "refresh_token"]): the two
\* columns of the row are overwritten, the others stay as the table has them.
SaveTokens(p, row) ==
    [connections EXCEPT ![p] = [@ EXCEPT !.access_token = row.access_token,
                                         !.refresh_token = row.refresh_token]]

----------------------------------------------------------------------------
(* Audit log: utils/audit.audit_log and its caller auth_entra.entra_callback *)

MaxAudit == 3                       \* rows and logged errors the audit side holds
AuditActions == {"auth.login", "auth.login_failed"}
LongAction == "x200"                \* an action longer than the column allows
DbBehaviours == {"ok", "error"}     \* AuditLog.objects.acreate inserts, or raises
NoAudit == [records |-> <<>>, logged |-> 0]

AuditOutcome(raised, table) == [raised |-> raised, audit |-> table]

\* Faulty variant of audit_log: the exception of acreate reaches the caller.
audit_log_Propagates(user, action, db) ==
    IF db = "ok" /\ action # LongAction
    THEN AuditOutcome(FALSE,
            [audit EXCEPT !.records = Append(@, [user |-> user, action |-> action])])
    ELSE AuditOutcome(TRUE, audit)

\* audit_log: the row is created inside try; an exception of the insert is
\* written to the error log and not raised.
audit_log(user, action, db) ==
    IF db = "ok" /\ action # LongAction
    THEN AuditOutcome(FALSE,
            [audit EXCEPT !.records = Append(@, [user |-> user, action |-> action])])
    ELSE AuditOutcome(FALSE, [audit EXCEPT !.logged = @ + 1])

LoginOutcome(table, r) == [audit |-> table, resp |-> r]

\* What comes back from a call of audit_log inside a handler: the handler's
\* own answer, or the 500 of an exception that escaped.
AfterAudit(a, r) ==
    IF a.raised THEN LoginOutcome(a.audit, Resp("login", 500, "Exception", NoTeam))
    ELSE LoginOutcome(a.audit, r)

\* GET /auth/entra/callback: the sign-in of user; token is what the code
\* exchange gives ("ok", "error" or "no_oid").
entra_callback(user, error, code, token, db) ==
    IF error # NoProviderError
    THEN LoginOutcome(audit, Resp("login", 302, error, NoTeam))
    ELSE IF code = NoCode
    THEN LoginOutcome(audit, Resp("login", 302, "no_code", NoTeam))
    ELSE IF token = "error"
    THEN AfterAudit(audit_log(NoUser, "auth.login_failed", db),
                    Resp("login", 302, "token_exchange_failed", NoTeam))
    ELSE IF token = "no_oid"
    THEN LoginOutcome(audit, Resp("login", 302, "missing_oid", NoTeam))
    ELSE AfterAudit(audit_log(user, "auth.login", db),
                    Resp("login", 302, "signed_in", NoTeam))

----------------------------------------------------------------------------
(* The connection side at rest *)

IdleSweep ==
    [pc |-> "idle", todo |-> {}, done |-> {}, ok |-> {}, loaded |-> [p \in {} |-> NoRow]]

IdleRot == Run("idle", "", UnsetKey, FALSE, 0)
NoVault == [op |-> "none"]

\* Nothing pending, nothing running, both processes on the same valid key.
InitIdle ==
    /\ registry = Services
    /\ sessions = NoSessions
    /\ issued = {}
    /\ redeemed = {}
    /\ env = [p \in Procs |-> K1]
    /\ sweep = IdleSweep
    /\ rot = IdleRot
    /\ vault = NoVault
    /\ audit = NoAudit
    /\ deleting = {}
    /\ client_secrets = NoSecrets

----------------------------------------------------------------------------
(* Actions of the content specification *)

NoQuery == [user |-> NoUser, agent |-> NoAgent, kind |-> "none", visible |-> {}]

\* A content handler's step: the tables become those of its outcome; the
\* response o.resp goes back to the caller and is not part of the state.
Apply(o) ==
    /\ Cardinality(o.entries) <= MaxEntries
    /\ entries' = o.entries
    /\ fileObjects' = o.fileObjects
    /\ UNCHANGED <<roleVars, agents, audit, deleting, resp, query, connections, flowVars, vaultVars>>

\* (visibility, team_slug) pairs a request can carry; the slug is read only
\* when the visibility is "team".
UploadTargets ==
    {<<"private", NoSlug>>, <<"org", NoSlug>>, <<"public", NoSlug>>}
        \cup {<<"team", slug>> : slug \in Slugs}
ShareTargets ==
    {<<"private", NoSlug>>, <<"org", NoSlug>>, <<"", NoSlug>>}
        \cup {<<"team", slug>> : slug \in Slugs}

Upload(u) ==
    \E f \in Files, regenerate \in BOOLEAN, tgt \in UploadTargets :
        \E o \in indexer(u, f, regenerate, tgt[1], tgt[2]) : Apply(o)

Share(u) ==
    \E f \in Files \cup {NoFile}, tgt \in ShareTargets :
        Apply(share_content(u, f, tgt[1], tgt[2]))

DeleteFile(u) ==
    \E f \in Files : \E o \in delete_content_files(u, f) : Apply(o)

DeleteFiles(u) ==
    \E fs \in SUBSET Files : \E o \in delete_content_file(u, fs) : Apply(o)

DeleteType(u) ==
    \E t \in ContentTypes \cup {"bogus"} : \E o \in delete_content_type(u, t) : Apply(o)

DeleteSource(u) ==
    \E src \in ContentSources \cup {"bogus"} : \E o \in delete_content_source(u, src) : Apply(o)

AddTeamMember(actors, targets) ==
    \E actor \in actors, slug \in Teams \cup {GhostSlug}, u \in targets,
       role \in Roles \cup {"owner"} :
        LET r == add_team_member(actor, slug, u, role)
        IN  /\ memberships' = r.m
            /\ query' = NoQuery
            /\ UNCHANGED <<isOrgAdmin, isStaff, contentVars, agents, audit, deleting, resp, connections, flowVars, vaultVars>>

RemoveTeamMember(actors, targets) ==
    \E actor \in actors, slug \in Teams \cup {GhostSlug}, u \in targets :
        LET r == remove_team_member(actor, slug, u)
        IN  /\ memberships' = r.m
            /\ query' = NoQuery
            /\ UNCHANGED <<isOrgAdmin, isStaff, contentVars, agents, audit, deleting, resp, connections, flowVars, vaultVars>>

UpdateUser(actors, targets) ==
    \E actor \in actors, u \in targets, flag \in BOOLEAN :
        LET r == update_user(actor, u, flag)
        IN  /\ isOrgAdmin' = r.a
            /\ query' = NoQuery
            /\ UNCHANGED <<isStaff, memberships, contentVars, agents, audit, deleting, resp, connections, flowVars, vaultVars>>

NoMemberships == [p \in Users \X Teams |-> NoRole]

InitContent ==
    /\ isOrgAdmin = {}
    /\ isStaff \in {{Root} \cup s : s \in SUBSET Requesters}
    /\ memberships = NoMemberships
    /\ entries = {Entry("u2", NoAgent, "f1", PRIVATE, NoTeam, NoUser)}
    /\ agents = {}
    /\ fileObjects = {<<"u2", "f1">>}
    /\ resp = NoResp
    /\ query = NoQuery
    /\ connections = NoConnections
    /\ InitIdle

NextContent ==
    \/ \E u \in Requesters : Upload(u)
    \/ \E u \in Requesters : Share(u)
    \/ \E u \in Requesters : DeleteFile(u)
    \/ \E u \in Requesters : DeleteFiles(u)
    \/ \E u \in Requesters : DeleteType(u)
    \/ \E u \in Requesters : DeleteSource(u)
    \/ AddTeamMember(AdminActors, Requesters)
    \/ RemoveTeamMember(AdminActors, Requesters)
    \/ UpdateUser(AdminActors, Requesters)

SpecContent == InitContent /\ [][NextContent]_vars

----------------------------------------------------------------------------
(* The read-access specification: roles of both users change through the   *)
(* admin endpoints while read queries run against a seeded catalogue.      *)

OwnerShapes == {<<u, NoAgent>> : u \in Users} \cup {<<NoUser, a>> : a \in Agents}
TierShapes == {<<PRIVATE, NoTeam>>, <<ORGANIZATION, NoTeam>>} \cup {<<TEAM, t>> : t \in Teams}

\* One entry row of every owner and tier (an entry belongs to exactly one of
\* a user or an agent; a team-tier row always names its team).
EntryCatalogue ==
    {Entry(o[1], o[2], "f1", v[1], v[2], NoUser) : o \in OwnerShapes, v \in TierShapes}

\* One agent row of every creator (or none) and tier.
AgentCatalogue ==
    {AgentRow(c, v[1], v[2]) : c \in Users \cup {NoUser}, v \in TierShapes}

Query(user, agent, kind, visible) ==
    [user |-> user, agent |-> agent, kind |-> kind, visible |-> visible]

\* Entry.objects.filter(build_entry_access_filter(user, agent))
EntryQuery ==
    \E u \in Users \cup {NoUser}, a \in Agents \cup {NoAgent} :
        /\ query' = Query(u, a, "entry", {e \in entries : build_entry_access_filter(u, a, e)})
        /\ UNCHANGED <<roleVars, contentVars, agents, audit, deleting, resp, connections, flowVars, vaultVars>>

\* AgentAdapters.get_all_accessible_agents(user)
AgentQuery ==
    \E u \in Users \cup {NoUser} :
        /\ query' = Query(u, NoAgent, "agent", {a \in agents : get_all_accessible_agents(u, a)})
        /\ UNCHANGED <<roleVars, contentVars, agents, audit, deleting, resp, connections, flowVars, vaultVars>>

InitFilter ==
    /\ isOrgAdmin = {}
    /\ isStaff \in {{Root} \cup s : s \in SUBSET Users}
    /\ memberships = NoMemberships
    /\ entries = EntryCatalogue
    /\ agents = AgentCatalogue
    /\ fileObjects = {}
    /\ resp = NoResp
    /\ query = NoQuery
    /\ connections = NoConnections
    /\ InitIdle

NextFilter ==
    \/ EntryQuery
    \/ AgentQuery
    \/ AddTeamMember(Accounts, Users)
    \/ RemoveTeamMember(Accounts, Users)
    \/ UpdateUser(Accounts, Users)

SpecFilter == InitFilter /\ [][NextFilter]_vars

----------------------------------------------------------------------------
(* The connection specification: connect, callback, refresh sweep,        *)
(* disconnect and service deletion, all in the web process.               *)

CallbackAnswers ==
    {Answer("ok", "at1", rt, ex) : rt \in {"rt1", ""}, ex \in Expiries \cup {""}}
        \cup FailedAnswers \cup BrokenAnswers \cup CancelledAnswers
RefreshAnswers ==
    {Answer("ok", "at2", rt, ex) : rt \in {"rt2", ""}, ex \in Expiries \cup {""}}
        \cup FailedAnswers \cup BrokenAnswers

ApplyConn(o) ==
    /\ connections' = o.connections
    /\ resp' = o.resp
    /\ rot' = Noted(o.connections)
    /\ UNCHANGED <<roleVars, contentVars, agents, audit, deleting, query, flowVars, env, sweep, vault>>

ApplyFlow(o) ==
    /\ connections' = o.connections
    /\ sessions' = o.sessions
    /\ redeemed' = o.redeemed
    /\ resp' = o.resp
    /\ rot' = Noted(o.connections)
    /\ UNCHANGED <<roleVars, contentVars, agents, audit, deleting, query, registry, client_secrets, env, sweep, vault>>

\* A user starts a connect attempt; start_auth_flow draws a state value
\* that was never drawn before.
Connect ==
    \E u \in FlowUsers, s \in Services \cup {UnknownService},
       st \in States \ issued, client_id \in {"", "client"} :
        /\ issued' = IF s \in registry THEN issued \cup {st} ELSE issued
        /\ ApplyFlow(initiate_mcp_connection(u, s, st, client_id))

\* The browser of any user comes back with any query string.
Callback ==
    \E u \in Users, error \in ProviderErrors \cup {NoProviderError},
       code \in Codes \cup {NoCode}, st \in States \cup {NoState},
       answer \in CallbackAnswers :
        /\ UNCHANGED issued
        /\ ApplyFlow(mcp_oauth_callback(u, error, code, st, answer))

\* The scan of _refresh_expiring_mcp_tokens: the selected rows are loaded
\* into a list once.
SweepScan ==
    LET expiring == {p \in DOMAIN connections : Expiring(p[1], p[2])}
    IN  /\ sweep.pc = "idle"
        /\ sweep' = [pc |-> "run", todo |-> expiring, done |-> {}, ok |-> {},
                     loaded |-> [p \in expiring |-> connections[p]]]
        /\ UNCHANGED <<roleVars, contentVars, agents, audit, deleting, query, resp, connections, flowVars,
                       env, rot, vault>>

\* asave() of an object loaded earlier: UPDATE of the row; a row that is
\* gone (deleted with its service) is not written back.
Save(p, row) ==
    IF connections[p] = NoRow THEN connections
    ELSE [connections EXCEPT ![p] = row]

\* Faulty variant of the loop body: an exception of refresh_access_token
\* leaves the loop, the rows not yet attempted are dropped.
SweepRefresh_StopsAtError ==
    \E p \in sweep.todo, answer \in RefreshAnswers :
        LET o == refresh_access_token(sweep.loaded[p], answer)
        IN  /\ sweep.pc = "run"
            /\ connections' = IF o.saved THEN Save(p, o.row) ELSE connections
            /\ resp' = Resp("refresh", 0, o.result, NoTeam)
            /\ sweep' = [sweep EXCEPT !.todo = IF o.result = "raise" THEN {} ELSE @ \ {p},
                                      !.done = @ \cup {p},
                                      !.ok = IF o.result = "true" THEN @ \cup {p} ELSE @]
            /\ rot' = Noted(connections')
            /\ UNCHANGED <<roleVars, contentVars, agents, audit, deleting, query, flowVars, env, vault>>

\* The loop body for one loaded row: refresh_access_token, whose result is
\* logged and whose exception is swallowed.
SweepRefresh ==
    \E p \in sweep.todo, answer \in RefreshAnswers :
        LET o == refresh_access_token(sweep.loaded[p], answer)
        IN  /\ sweep.pc = "run"
            /\ connections' = IF o.saved THEN Save(p, o.row) ELSE connections
            /\ resp' = Resp("refresh", 0, o.result, NoTeam)
            /\ sweep' = [sweep EXCEPT !.todo = @ \ {p}, !.done = @ \cup {p},
                                      !.ok = IF o.result = "true" THEN @ \cup {p} ELSE @]
            /\ rot' = Noted(connections')
            /\ UNCHANGED <<roleVars, contentVars, agents, audit, deleting, query, flowVars, env, vault>>

SweepEnd ==
    /\ sweep.pc = "run"
    /\ sweep.todo = {}
    /\ sweep' = IdleSweep
    /\ UNCHANGED <<roleVars, contentVars, agents, audit, deleting, query, resp, connections, flowVars,
                   env, rot, vault>>

\* Time passes: a token that expired beyond the lookahead comes within it.
Tick ==
    \E u \in Users, s \in Services :
        /\ connections[<<u, s>>] # NoRow
        /\ connections[<<u, s>>].token_expires_at = "later"
        /\ connections' = [connections EXCEPT ![<<u, s>>].token_expires_at = "soon"]
        /\ UNCHANGED <<roleVars, contentVars, agents, audit, deleting, resp, query, flowVars, vaultVars>>

Disconnect ==
    \E u \in Users, s \in Services \cup {UnknownService} :
        ApplyConn(disconnect_mcp_service(u, s))

DeleteService ==
    \E s \in Services, cascade \in BOOLEAN :
        LET o == delete_mcp_service(Root, s, cascade)
        IN  /\ registry' = o.registry
            /\ client_secrets' = [id \in Services |->
                                    IF id \in o.registry THEN client_secrets[id] ELSE NoToken]
            /\ connections' = o.connections
            /\ resp' = o.resp
            /\ rot' = Noted(o.connections)
            /\ UNCHANGED <<roleVars, contentVars, agents, audit, deleting, query, sessions, issued, redeemed,
                           env, sweep, vault>>

InitConn ==
    /\ isOrgAdmin = {}
    /\ isStaff = {Root}
    /\ memberships = NoMemberships
    /\ entries = {}
    /\ agents = {}
    /\ fileObjects = {}
    /\ resp = NoResp
    /\ query = NoQuery
    /\ connections = NoConnections
    /\ InitIdle

NextConn ==
    \/ Connect
    \/ Callback
    \/ SweepScan
    \/ SweepRefresh
    \/ SweepEnd
    \/ Tick
    \/ Disconnect
    \/ DeleteService

SpecConn == InitConn /\ [][NextConn]_vars

----------------------------------------------------------------------------
(* The vault specification: key rotation beside the running server *)

\* Rows that callbacks of earlier server processes have left: connected,
\* about to expire, with or without a refresh token, sealed under the key
\* the server had at the time.
SeedRow(k, with_refresh) ==
    Connection(CONNECTED, Sealed(derive_key(k, TokenContext), Encode("at1")),
               IF with_refresh THEN Sealed(derive_key(k, TokenContext), Encode("rt1"))
               ELSE NoToken,
               "soon", NoError)
SeedRows == {SeedRow(k, with_refresh) : k \in MasterKeys, with_refresh \in BOOLEAN}

\* The operator sets APOLLOS_VAULT_MASTER_KEY for a process: the server is
\* restarted at any time, the command gets its environment when it starts.
Deploy ==
    \E proc \in Procs, k \in EnvKeys :
        /\ proc = "command" => rot.pc = "idle"
        /\ proc = "server" => k \in MasterKeys
        /\ env[proc] # k
        /\ env' = [env EXCEPT ![proc] = k]
        /\ UNCHANGED <<roleVars, contentVars, agents, audit, deleting, query, resp, connections, flowVars,
                       sweep, rot, vault>>

\* manage.py rotate_vault_key --old-key ... [--dry-run], up to the loop.
RotateStart ==
    \E old_key \in MasterKeys \cup {ShortKey}, dry_run \in BOOLEAN :
        /\ rot.pc = "idle"
        /\ rot' = handle(old_key, dry_run)
        /\ UNCHANGED <<roleVars, contentVars, agents, audit, deleting, query, resp, connections, flowVars,
                       env, sweep, vault>>

\* connections.iterator(): the second query of the run, whose rows the loop
\* then walks through.
RotateLoad ==
    /\ rot.pc = "counted"
    /\ rot' = [rot EXCEPT !.pc = "loop",
                          !.todo = Selected(connections),
                          !.loaded = [p \in Selected(connections) |-> connections[p]]]
    /\ UNCHANGED <<roleVars, contentVars, agents, audit, deleting, query, resp, connections, flowVars,
                   env, sweep, vault>>

\* Faulty variant of RotateRow: the first failure ends the loop.
RotateRow_StopsAtError ==
    \E p \in rot.todo :
        LET o == rotate_row(rot.loaded[p], rot.old_key)
            saved == o.ok /\ connections[p] # NoRow
        IN  /\ rot.pc = "loop"
            /\ connections' = IF saved THEN SaveTokens(p, o.row) ELSE connections
            /\ rot' = [rot EXCEPT !.todo = IF saved THEN @ \ {p} ELSE {},
                                  !.success = IF saved THEN @ + 1 ELSE @,
                                  !.errors = IF saved THEN @ ELSE @ + 1,
                                  !.rotated = IF saved THEN @ \cup {p} ELSE @]
            /\ UNCHANGED <<roleVars, contentVars, agents, audit, deleting, query, resp, flowVars,
                           env, sweep, vault>>

\* Faulty variant of RotateRow: the row is saved after each field, so a
\* failure on the refresh token leaves the access token re-encrypted.
RotateRow_SavesEachField ==
    \E p \in rot.todo :
        LET o == rotate_row(rot.loaded[p], rot.old_key)
            access_token == rotate_field(derive_key(rot.old_key, TokenContext),
                                         rot.loaded[p].access_token)
            partial == IF access_token.tag = "raise" THEN rot.loaded[p]
                       ELSE [rot.loaded[p] EXCEPT !.access_token = access_token]
            saved == o.ok /\ connections[p] # NoRow
        IN  /\ rot.pc = "loop"
            /\ connections' = IF connections[p] = NoRow THEN connections
                               ELSE SaveTokens(p, IF o.ok THEN o.row ELSE partial)
            /\ rot' = [rot EXCEPT !.todo = @ \ {p},
                                  !.success = IF saved THEN @ + 1 ELSE @,
                                  !.errors = IF saved THEN @ ELSE @ + 1,
                                  !.rotated = IF saved THEN @ \cup {p} ELSE @]
            /\ UNCHANGED <<roleVars, contentVars, agents, audit, deleting, query, resp, flowVars,
                           env, sweep, vault>>

\* The loop body for one loaded row: re-encrypt both fields and save them,
\* or count an error. A forced update of a row that is gone raises too.
RotateRow ==
    \E p \in rot.todo :
        LET o == rotate_row(rot.loaded[p], rot.old_key)
            saved == o.ok /\ connections[p] # NoRow
        IN  /\ rot.pc = "loop"
            /\ connections' = IF saved THEN SaveTokens(p, o.row) ELSE connections
            /\ rot' = [rot EXCEPT !.todo = @ \ {p},
                                  !.success = IF saved THEN @ + 1 ELSE @,
                                  !.errors = IF saved THEN @ ELSE @ + 1,
                                  !.rotated = IF saved THEN @ \cup {p} ELSE @]
            /\ UNCHANGED <<roleVars, contentVars, agents, audit, deleting, query, resp, flowVars,
                           env, sweep, vault>>

\* The final tally.
RotateEnd ==
    /\ rot.pc = "loop"
    /\ rot.todo = {}
    /\ rot' = [rot EXCEPT !.pc = "done", !.msg = "Rotated"]
    /\ UNCHANGED <<roleVars, contentVars, agents, audit, deleting, query, resp, connections, flowVars,
                   env, sweep, vault>>

\* The command's process is gone; the operator may run it again.
RotateExit ==
    /\ rot.pc \in {"done", "aborted", "dry"}
    /\ rot' = IdleRot
    /\ UNCHANGED <<roleVars, contentVars, agents, audit, deleting, query, resp, connections, flowVars,
                   env, sweep, vault>>

InitVault ==
    /\ isOrgAdmin = {}
    /\ isStaff = {Root}
    /\ memberships = NoMemberships
    /\ entries = {}
    /\ agents = {}
    /\ fileObjects = {}
    /\ resp = NoResp
    /\ query = NoQuery
    /\ connections \in [DOMAIN NoConnections -> SeedRows \cup {NoRow}]
    /\ InitIdle

NextVault ==
    \/ Deploy
    \/ RotateStart
    \/ RotateLoad
    \/ RotateRow
    \/ RotateEnd
    \/ RotateExit
    \/ Disconnect

SpecVault == InitVault /\ [][NextVault]_vars

----------------------------------------------------------------------------
(* The crypto specification: encrypt_token and decrypt_token called in turn *)

\* A process encrypts a plaintext under the key its environment holds.
Encrypt ==
    \E proc \in Procs, text \in Texts :
        /\ vault' = [op |-> "encrypt", proc |-> proc, text |-> text, key |-> env[proc],
                     value |-> encrypt_token(proc, text),
                     readkey |-> UnsetKey, out |-> NoToken]
        /\ UNCHANGED <<roleVars, contentVars, agents, audit, deleting, query, resp, connections, flowVars,
                       env, sweep, rot>>

\* A process decrypts the value the last encryption returned.
Decrypt ==
    \E proc \in Procs :
        /\ vault.op \in {"encrypt", "decrypt"}
        /\ vault.value.tag \in {"enc", "altered"}
        /\ vault' = [vault EXCEPT !.op = "decrypt", !.readkey = env[proc],
                                  !.out = decrypt_token(proc, vault.value)]
        /\ UNCHANGED <<roleVars, contentVars, agents, audit, deleting, query, resp, connections, flowVars,
                       env, sweep, rot>>

\* The stored value is changed behind the program's back.
Tamper ==
    /\ vault.op = "encrypt"
    /\ vault.value.tag = "enc"
    /\ vault' = [vault EXCEPT !.value = Alter(@)]
    /\ UNCHANGED <<roleVars, contentVars, agents, audit, deleting, query, resp, connections, flowVars,
                   env, sweep, rot>>

InitCrypto ==
    /\ isOrgAdmin = {}
    /\ isStaff = {Root}
    /\ memberships = NoMemberships
    /\ entries = {}
    /\ agents = {}
    /\ fileObjects = {}
    /\ resp = NoResp
    /\ query = NoQuery
    /\ connections = NoConnections
    /\ InitIdle

NextCrypto ==
    \/ Deploy
    \/ Encrypt
    \/ Tamper
    \/ Decrypt

SpecCrypto == InitCrypto /\ [][NextCrypto]_vars

----------------------------------------------------------------------------
(* The race specification: a rotation run beside the refresh sweep *)

\* The server process is restarted and picks up the key the operator has
\* set.
Restart ==
    /\ env["server"] # env["command"]
    /\ env["command"] \in MasterKeys
    /\ env' = [env EXCEPT !["server"] = env["command"]]
    /\ UNCHANGED <<roleVars, contentVars, agents, audit, deleting, query, resp, connections, flowVars,
                   sweep, rot, vault>>

\* The operator has set the new key for the command; the server still runs
\* with the key it was started with, under which it has written its rows.
InitRace ==
    /\ isOrgAdmin = {}
    /\ isStaff = {Root}
    /\ memberships = NoMemberships
    /\ entries = {}
    /\ agents = {}
    /\ fileObjects = {}
    /\ resp = NoResp
    /\ query = NoQuery
    /\ connections \in [DOMAIN NoConnections -> {SeedRow(K1, TRUE), NoRow}]
    /\ registry = Services
    /\ sessions = NoSessions
    /\ issued = {}
    /\ redeemed = {}
    /\ env = [server |-> K1, command |-> K2]
    /\ sweep = IdleSweep
    /\ rot = IdleRot
    /\ vault = NoVault
    /\ audit = NoAudit
    /\ deleting = {}
    /\ client_secrets = NoSecrets

NextRace ==
    \/ Restart
    \/ RotateStart
    \/ RotateLoad
    \/ RotateRow
    \/ RotateEnd
    \/ RotateExit
    \/ SweepScan
    \/ SweepRefresh
    \/ SweepEnd

SpecRace == InitRace /\ [][NextRace]_vars

----------------------------------------------------------------------------
(* Requests a principal can issue in the current state, with the queryset  *)
(* the handler guards and the outcomes the handler can produce.            *)

DeleteCall(op, target, outcomes) == [op |-> op, target |-> target, outcomes |-> outcomes]

DeleteCalls(u) ==
    {DeleteCall("delete_file", EntriesByFile(u, f), delete_content_files(u, f)) : f \in Files}
    \cup {DeleteCall("delete_files", EntriesByFiles(u, fs), delete_content_file(u, fs))
            : fs \in SUBSET Files}
    \cup {DeleteCall("delete_type", EntriesByType(u, t), delete_content_type(u, t))
            : t \in ContentTypes}
    \cup {DeleteCall("delete_source", EntriesBySource(u, src), delete_content_source(u, src))
            : src \in ContentSources}

\* Outcomes of every upload of file f that asks for visibility v and slug.
UploadOutcomes(u, f, v, slug) ==
    UNION {indexer(u, f, regenerate, v, slug) : regenerate \in BOOLEAN}

Unchanged(o) == o.entries = entries /\ o.fileObjects = fileObjects

Succeeded(o) == o.resp.status \in {200, 201}

OrgEntries(tbl) == {e \in tbl : e.visibility = ORGANIZATION}

----------------------------------------------------------------------------
(* Content items of the read-access claims *)

ContentItems == entries \cup agents

\* The access filter built for a user (or the anonymous caller) with no
\* agent context, applied to a content item of either table.
Matches(user, item) ==
    IF item \in agents THEN get_all_accessible_agents(user, item)
    ELSE build_entry_access_filter(user, NoAgent, item)

\* The rows of the item's table that the last query should have returned.
Answered(kind) == query.kind = kind /\ query.agent = NoAgent

----------------------------------------------------------------------------
(* C1 *)

----------------------------------------------------------------------------
(* C2 *)

\* C2: for every item with visibility private that a user owns, the filter
\* built for the owner matches it, and the filter built for any other user
\* (whatever their teams, org-admin flag or staff flag) or for the
\* anonymous caller does not match it.
C2_PrivateItemsMatchOwnerOnly ==
    \A item \in ContentItems :
        (item.visibility = PRIVATE /\ item.user # NoUser) =>
            /\ Matches(item.user, item)
            /\ \A u \in (Users \cup {NoUser}) \ {item.user} : ~Matches(u, item)

\* C2 witness: an org-admin who shares a team with the owner queried the
\* entries and the owner's private entry is not in the answer.
C2_Witness ==
    /\ Answered("entry")
    /\ query.user = "u2"
    /\ "u2" \in isOrgAdmin
    /\ memberships[<<"u1", "t1">>] # NoRole
    /\ memberships[<<"u2", "t1">>] # NoRole
    /\ Entry("u1", NoAgent, "f1", PRIVATE, NoTeam, NoUser) \in entries \ query.visible
    /\ Entry("u2", NoAgent, "f1", PRIVATE, NoTeam, NoUser) \in query.visible

----------------------------------------------------------------------------
(* C3 *)

\* C3: for every item with visibility organization, the filter built for
\* any authenticated user matches it, and the filter built for the
\* anonymous caller (no user, no agent) matches it if and only if the item
\* has no owner; an organization item created by a named user is not
\* matched for the anonymous caller.
C3_OrgItemsMatchAuthenticated ==
    \A item \in ContentItems :
        item.visibility = ORGANIZATION =>
            /\ \A u \in Users : Matches(u, item)
            /\ Matches(NoUser, item) <=> ~HasOwner(item)

\* C3 witness: the anonymous caller listed the agents; the answer holds the
\* admin-managed organization agent and not the one a named user created.
C3_Witness ==
    /\ Answered("agent")
    /\ query.user = NoUser
    /\ AgentRow(NoUser, ORGANIZATION, NoTeam) \in query.visible
    /\ AgentRow("u1", ORGANIZATION, NoTeam) \in agents \ query.visible

----------------------------------------------------------------------------
(* C4 *)

\* C4: Disconnect on an existing row, whatever its status, leaves the row
\* in place with status revoked and both tokens absent, and touches no
\* other row; Disconnect for a (user, service) pair without a row answers
\* 404 and changes nothing.
C4_DisconnectRevokes ==
    \A u \in Users, s \in Services \cup {UnknownService} :
        LET before == ConnectionOf(u, s)
            o == disconnect_mcp_service(u, s)
        IN  IF before = NoRow
            THEN o.resp.status = 404 /\ o.connections = connections
            ELSE /\ o.resp.status = 200
                 /\ o.connections[<<u, s>>] # NoRow
                 /\ o.connections[<<u, s>>].status = REVOKED
                 /\ o.connections[<<u, s>>].access_token = NoToken
                 /\ o.connections[<<u, s>>].refresh_token = NoToken
                 /\ \A p \in DOMAIN connections \ {<<u, s>>} :
                        o.connections[p] = connections[p]

\* C4 witness: Disconnect has answered 200 for a row whose refresh had
\* failed (the error message of the failure is still on the row); the row
\* is in place, revoked, with both tokens absent.
C4_Witness ==
    /\ resp.op = "disconnect"
    /\ resp.status = 200
    /\ \E p \in DOMAIN connections :
        /\ connections[p] # NoRow
        /\ connections[p].status = REVOKED
        /\ connections[p].error_message # NoError
        /\ connections[p].access_token = NoToken
        /\ connections[p].refresh_token = NoToken

----------------------------------------------------------------------------
(* C5 *)

\* C5: a successful share never lowers an entry's visibility in the order
\* private < team < organization: every row the share rewrites ends at a
\* tier at least as high as the one it had.
C5_ShareNeverDowngrades ==
    \A u \in Users, f \in Files, tgt \in ShareTargets :
        LET o == share_content(u, f, tgt[1], tgt[2])
        IN  o.resp.status = 200 =>
                \A e \in EntriesByFile(u, f) :
                    VisRank[tgt[1]] >= VisRank[e.visibility]

----------------------------------------------------------------------------
(* C6 *)

\* C6: delete permission is all-or-nothing. For each of the four delete
\* endpoints, when the guard denies the request's queryset, the response is
\* 403 and no entry and no file object is deleted; in particular a
\* non-admin's batch holding one organization item and one own private item
\* leaves both in place.
C6_DeleteAllOrNothing ==
    \A u \in Users : \A c \in DeleteCalls(u) :
        /\ \A o \in c.outcomes : ~Succeeded(o) => Unchanged(o)
        /\ (\E v \in CheckDeletePermission(u, c.target) : ~v.ok) =>
                \A o \in c.outcomes : o.resp.status = 403 /\ Unchanged(o)

\* C6 witness: a non-admin owns an organization item and a private item in
\* one batch, and the batch delete is refused with both rows kept.
C6_Witness ==
    \E u \in Requesters : \E c \in DeleteCalls(u) :
        /\ ~IsAdmin(u)
        /\ \E e \in c.target : e.visibility = ORGANIZATION
        /\ \E e \in c.target : e.visibility = PRIVATE
        /\ \A o \in c.outcomes : o.resp.status = 403 /\ o.entries = entries

----------------------------------------------------------------------------
(* C7 *)

\* C7: a delete request of a principal who is neither org-admin nor staff
\* is denied (admins only) whenever its queryset holds an organization item,
\* whatever the principal's team roles and the other items; an org-admin or
\* staff principal is never denied by the guard.
C7_OrgItemsNeedAdmin ==
    \A u \in Users : \A c \in DeleteCalls(u) :
        /\ (~IsAdmin(u) /\ \E e \in c.target : e.visibility = ORGANIZATION) =>
                \A o \in c.outcomes :
                    /\ o.resp.status = 403
                    /\ o.resp.msg = MsgAdminsOnlyDelete
                    /\ Unchanged(o)
        /\ IsAdmin(u) => \A v \in CheckDeletePermission(u, c.target) : v.ok

\* C7 witness: a non-admin who holds the team role admin in a team owns an
\* organization item, and the delete of it is refused as admins-only.
C7_Witness ==
    \E u \in Requesters : \E c \in DeleteCalls(u) :
        /\ ~IsAdmin(u)
        /\ \E t \in Teams : get_user_role_in_team(u, t) = "admin"
        /\ \E e \in c.target : e.visibility = ORGANIZATION
        /\ \A o \in c.outcomes : o.resp.status = 403 /\ o.resp.msg = MsgAdminsOnlyDelete

\* C7 witness, second half: a staff principal deletes a batch holding an
\* organization item and a team item of a team it is no member of.
C7_WitnessAdmin ==
    \E u \in Requesters : \E c \in DeleteCalls(u) :
        /\ u \in isStaff /\ u \notin isOrgAdmin
        /\ \E e \in c.target : e.visibility = ORGANIZATION
        /\ \E e \in c.target : e.visibility = TEAM /\ ~IsMember(u, e.team)
        /\ \A o \in c.outcomes : Succeeded(o) /\ o.entries # entries

----------------------------------------------------------------------------
(* C8 *)

BelowTeamLead(u, t) ==
    get_user_role_in_team(u, t) \notin {"team_lead", "admin"}

\* Teams of team-visibility items of the queryset in which u is below team_lead.
FailingTeams(u, target) ==
    {e.team : e \in {x \in target : x.visibility = TEAM /\ BelowTeamLead(u, x.team)}}

\* C8 as stated: a non-admin whose queryset holds a team item of a team in
\* which they are below team_lead (plain member, owner or not, or non-member)
\* is denied with the message naming the team_lead minimum.
C8_Original ==
    \A u \in Users : \A c \in DeleteCalls(u) :
        (~IsAdmin(u) /\ FailingTeams(u, c.target) # {}) =>
            \A o \in c.outcomes :
                /\ o.resp.status = 403
                /\ o.resp.msg = MsgTeamLeadDelete

\* C8 amended: such a request is always denied and changes nothing; the
\* message names the team_lead minimum and one of the failing teams when the
\* queryset holds no organization item, and is the admins-only message when
\* it does. Every distinct team of the queryset is checked: one failing team
\* among several suffices for the denial.
C8_TeamItemsNeedTeamLead ==
    \A u \in Users : \A c \in DeleteCalls(u) :
        (~IsAdmin(u) /\ FailingTeams(u, c.target) # {}) =>
            \A o \in c.outcomes :
                /\ o.resp.status = 403
                /\ Unchanged(o)
                /\ IF \E e \in c.target : e.visibility = ORGANIZATION
                   THEN o.resp.msg = MsgAdminsOnlyDelete
                   ELSE /\ o.resp.msg = MsgTeamLeadDelete
                        /\ o.resp.team \in FailingTeams(u, c.target)

\* C8 witness: a non-admin is team_lead of one team and plain member of
\* another, owns a team item in each, and the batch is refused naming the
\* team in which they are only a member.
C8_Witness ==
    \E u \in Requesters : \E c \in DeleteCalls(u) : \E t1 \in Teams, t2 \in Teams :
        /\ ~IsAdmin(u)
        /\ get_user_role_in_team(u, t1) = "team_lead"
        /\ get_user_role_in_team(u, t2) = "member"
        /\ \E e \in c.target : e.visibility = TEAM /\ e.team = t1
        /\ \E e \in c.target : e.visibility = TEAM /\ e.team = t2 /\ e.user = u
        /\ \A o \in c.outcomes :
                o.resp.status = 403 /\ o.resp.msg = MsgTeamLeadDelete /\ o.resp.team = t2

----------------------------------------------------------------------------
(* C9 *)

\* C9: no upload and no share made by a principal who is neither org-admin
\* nor staff gives an entry organization visibility. A request of such a
\* principal that names a file and targets organization visibility is denied
\* with 403 and changes nothing, whether or not the principal owns entries
\* under that path; its other uploads and shares add no organization row.
C9_OrgTargetNeedsAdmin ==
    \A u \in Users : ~IsAdmin(u) =>
        \A f \in Files :
            /\ \A slug \in Slugs :
                /\ \A o \in UploadOutcomes(u, f, "org", slug) :
                        o.resp.status = 403 /\ Unchanged(o)
                /\ LET o == share_content(u, f, "org", slug)
                   IN  o.resp.status = 403 /\ Unchanged(o)
            /\ \A tgt \in UploadTargets : \A o \in UploadOutcomes(u, f, tgt[1], tgt[2]) :
                    OrgEntries(o.entries) \subseteq OrgEntries(entries)
            /\ \A tgt \in ShareTargets :
                    OrgEntries(share_content(u, f, tgt[1], tgt[2]).entries)
                        \subseteq OrgEntries(entries)

\* C9 witness: a non-admin owns entries under a path and their share of it
\* to the organization is refused, as is the share of a path they own
\* nothing under.
C9_Witness ==
    \E u \in Requesters : \E f \in Files, g \in Files :
        /\ ~IsAdmin(u)
        /\ EntriesByFile(u, f) # {}
        /\ EntriesByFile(u, g) = {}
        /\ share_content(u, f, "org", NoSlug).resp.status = 403
        /\ share_content(u, g, "org", NoSlug).resp.status = 403
        /\ \A o \in UploadOutcomes(u, f, "org", NoSlug) : o.resp.status = 403

----------------------------------------------------------------------------
(* C10 *)

MayTargetTeam(u, slug) == slug \in Teams /\ (IsMember(u, slug) \/ IsAdmin(u))

TeamTargetRule(u, slug, o) ==
    /\ o.resp.status = 200 => MayTargetTeam(u, slug)
    /\ slug = NoSlug => o.resp.status = 400
    /\ slug = GhostSlug => o.resp.status = 404
    /\ (slug \in Teams /\ ~MayTargetTeam(u, slug)) => o.resp.status = 403
    /\ o.resp.status # 200 => Unchanged(o)

\* C10: an upload or a share that names a file and targets team visibility
\* succeeds only if the team exists and the requester is, at request time,
\* a member of it (any role) or org-admin/staff; without a slug it fails
\* with a validation error (400), for an unknown team with not-found (404),
\* for a non-member with permission denied (403), and a failed request
\* changes no entry.
C10_TeamTargetNeedsMembership ==
    \A u \in Users, f \in Files, slug \in Slugs :
        /\ \A o \in UploadOutcomes(u, f, "team", slug) : TeamTargetRule(u, slug, o)
        /\ TeamTargetRule(u, slug, share_content(u, f, "team", slug))

\* C10 witness: a non-admin member of one team and not of the other owns
\* entries under a path; sharing it to the first team succeeds and sharing
\* it to the second is refused.
C10_Witness ==
    \E u \in Requesters : \E f \in Files, t1 \in Teams, t2 \in Teams :
        /\ ~IsAdmin(u)
        /\ IsMember(u, t1) /\ ~IsMember(u, t2)
        /\ EntriesByFile(u, f) # {}
        /\ share_content(u, f, "team", t1).resp.status = 200
        /\ share_content(u, f, "team", t2).resp.status = 403
        /\ \A o \in UploadOutcomes(u, f, "team", t2) : o.resp.status = 403
        /\ \E o \in UploadOutcomes(u, f, "team", t1) : o.resp.status = 200

----------------------------------------------------------------------------
(* Callback requests of the connection claims *)

\* Every query string a browser can come back with, and every behaviour of
\* the provider at the exchange.
CallbackCall(user, error, code, state, answer) ==
    [user |-> user, error |-> error, code |-> code, state |-> state, answer |-> answer,
     outcome |-> mcp_oauth_callback(user, error, code, state, answer)]

CallbackCalls ==
    {CallbackCall(u, error, code, st, answer) :
        u \in Users, error \in ProviderErrors \cup {NoProviderError},
        code \in Codes \cup {NoCode}, st \in States \cup {NoState},
        answer \in CallbackAnswers}

\* The service a state is bound to in the user's session, if any.
Bindings(user, state) == {b \in sessions[user] : b[1] = state}

ErrorTags ==
    ProviderErrors \cup {"missing_params", "invalid_state", "service_not_found",
                         "token_exchange_failed"}

----------------------------------------------------------------------------
(* C11 *)

\* The failures the claim lists: an error parameter, a missing code or
\* state, a state that is not pending in the session (unknown or used), a
\* binding to a service that is gone, a discovery or exchange that fails.
ListedFailure(c) ==
    \/ c.error # NoProviderError
    \/ c.code = NoCode \/ c.state = NoState
    \/ Bindings(c.user, c.state) = {}
    \/ \E b \in Bindings(c.user, c.state) : b[2] \notin registry
    \/ c.answer \in FailedAnswers

----------------------------------------------------------------------------
(* C12 *)

\* C12: a pending state is redeemed at most once. A callback that reads the
\* session under a state removes the binding, also when the exchange that
\* follows fails; a state some callback has popped is never pending again;
\* and a callback whose state is not pending in the caller's session (used
\* before, issued to another session, never issued) answers invalid_state
\* without exchanging a code and without changing a connection row.
C12_StateRedeemedOnce ==
    /\ \A pair \in redeemed : Bindings(pair[1], pair[2]) = {}
    /\ \A c \in CallbackCalls :
        (c.error = NoProviderError /\ c.code # NoCode /\ c.state # NoState) =>
            /\ \A b \in c.outcome.sessions[c.user] : b[1] # c.state
            /\ Bindings(c.user, c.state) = {} =>
                    /\ c.outcome.resp.msg = "invalid_state"
                    /\ ~c.outcome.resp.exchanged
                    /\ c.outcome.connections = connections
                    /\ c.outcome.sessions = sessions

\* C12 witness: a callback has just been rejected as invalid_state for a
\* state that an earlier callback of the same user had redeemed.
C12_Witness ==
    /\ resp.op = "callback"
    /\ resp.msg = "invalid_state"
    /\ <<resp.user, resp.state>> \in redeemed
    /\ ~resp.exchanged

----------------------------------------------------------------------------
(* Refresh attempts of the connection claims *)

\* The attempts the running sweep can make next on a row that nobody has
\* touched since the sweep loaded it, with every behaviour of the provider.
RefreshCall(p, answer) ==
    [pair |-> p, before |-> sweep.loaded[p], answer |-> answer,
     outcome |-> refresh_access_token(sweep.loaded[p], answer)]

RefreshCalls ==
    {RefreshCall(p, answer) :
        p \in {q \in sweep.todo : connections[q] = sweep.loaded[q]},
        answer \in RefreshAnswers}

----------------------------------------------------------------------------
(* C13 *)

\* C13: a refresh attempt on a connected row that fails saves the row with
\* status error and a recorded error message and with its stored tokens
\* unchanged, so that no later sweep selects the row until a callback
\* connects it again.
C13_FailedRefreshSetsError ==
    \A c \in RefreshCalls :
        c.outcome.result # "true" =>
            /\ c.outcome.saved
            /\ c.outcome.row.status = ERROR
            /\ c.outcome.row.error_message # NoError
            /\ c.outcome.row.access_token = c.before.access_token
            /\ c.outcome.row.refresh_token = c.before.refresh_token

----------------------------------------------------------------------------
(* C14 *)

\* C14: a successful refresh saves the row with the newly issued access
\* token encrypted, with the refresh token the provider returned or else
\* the stored one, with the expiry that the response gives, with no error
\* message and with status connected.
C14_SuccessfulRefreshStoresTokens ==
    \A c \in RefreshCalls :
        c.outcome.result = "true" =>
            /\ c.outcome.saved
            /\ DecryptsUnder(env["server"], c.outcome.row.access_token, c.answer.access)
            /\ IF c.answer.refresh = ""
               THEN c.outcome.row.refresh_token = c.before.refresh_token
               ELSE DecryptsUnder(env["server"], c.outcome.row.refresh_token, c.answer.refresh)
            /\ c.answer.expires \in Expiries
            /\ c.outcome.row.token_expires_at = c.answer.expires
            /\ c.outcome.row.error_message = NoError
            /\ c.outcome.row.status = CONNECTED

----------------------------------------------------------------------------
(* C15 *)

\* Both jobs are through: the rotation run has printed its tally and the
\* sweep has worked off every row it loaded.
BothFinished == rot.pc = "done" /\ sweep.pc = "run" /\ sweep.todo = {}

\* C15: whatever the interleaving of a rotation pass and a refresh on the
\* same row, once both have finished a row that the rotation re-encrypted
\* and the sweep refreshed successfully holds the access token the refresh
\* was issued, and both its tokens decrypt under the current master key.
C15_RotationAndRefreshAtomic ==
    BothFinished =>
        \A p \in rot.rotated \cap sweep.ok :
            /\ DecryptsUnder(env["command"], connections[p].access_token, "at2")
            /\ \E rt \in RefreshTokens :
                    DecryptsUnder(env["command"], connections[p].refresh_token, rt)

----------------------------------------------------------------------------
(* C16 *)

SecretFields == {"access_token", "refresh_token"}
TokenTexts == AccessTokens \cup RefreshTokens

\* A run that went through the loop with no other writer beside it: the
\* rows it loaded are the rows as they were before the run.
QuietRun == rot.pc = "done" /\ rot.alone

\* C16: after a non-dry run with valid keys and no concurrent writer, every
\* secret field that decrypted under the old master key before the run
\* decrypts under the current master key to the same plaintext and no longer
\* under the old key; the run has loaded every row that holds a secret.
C16_RotationReencryptsEveryField ==
    QuietRun =>
        /\ \A p \in DOMAIN connections :
                (connections[p] # NoRow /\ p \notin DOMAIN rot.loaded) =>
                    \A f \in SecretFields : connections[p][f] = NoToken
        /\ \A p \in DOMAIN rot.loaded, f \in SecretFields, text \in TokenTexts :
                DecryptsUnder(rot.old_key, rot.loaded[p][f], text) =>
                    /\ DecryptsUnder(env["command"], connections[p][f], text)
                    /\ ~DecryptsUnder(rot.old_key, connections[p][f], text)

\* C16 witness: a quiet run has rotated a row with both tokens, and another
\* row besides.
C16_Witness ==
    /\ QuietRun
    /\ rot.success = 2
    /\ \E p \in rot.rotated :
            /\ DecryptsUnder(rot.old_key, rot.loaded[p].access_token, "at1")
            /\ DecryptsUnder(rot.old_key, rot.loaded[p].refresh_token, "rt1")
            /\ DecryptsUnder(env["command"], connections[p].refresh_token, "rt1")

----------------------------------------------------------------------------
(* C17 *)

\* C17 as stated: at the end of a run the reported successes plus errors
\* equal the number of records the run found at its start.
C17_Original ==
    rot.pc = "done" => rot.success + rot.errors = rot.total

\* C17: every record the run's iteration loaded is worked off exactly once,
\* as one success or as one error, failures do not end the loop, and the
\* tally adds up to the loaded records at the end; it adds up to the count
\* printed at the start when no other writer changed the table in between.
C17_RotationCountsEveryRecord ==
    /\ rot.pc \in {"loop", "done"} =>
            /\ rot.success + rot.errors + Cardinality(rot.todo)
                    = Cardinality(DOMAIN rot.loaded)
            /\ rot.success = Cardinality(rot.rotated)
            /\ rot.rotated \cap rot.todo = {}
    /\ rot.pc = "done" =>
            /\ rot.todo = {}
            /\ rot.alone => rot.success + rot.errors = rot.total

\* C17 witness: a run with no writer beside it has ended with one record
\* failed and another one rotated.
C17_Witness ==
    /\ rot.pc = "done"
    /\ rot.alone
    /\ rot.errors = 1
    /\ rot.success = 1
    /\ rot.total = 2

----------------------------------------------------------------------------
(* C18 *)

\* The keys a run must refuse: an old key of fewer than 32 characters, an
\* environment key that is unset or has fewer than 32 characters, an old key
\* equal to the environment key.
BadKeys(old_key) ==
    \/ KeyLength(old_key) < MinKeyLength
    \/ env["command"] = UnsetKey
    \/ KeyLength(env["command"]) < MinKeyLength
    \/ old_key = env["command"]

\* C18: a run started with such keys aborts at once: it has counted and
\* loaded no record, it changes no connection row, and the only step it
\* still takes is its exit.
C18_BadKeysAbort ==
    [][/\ (rot.pc = "idle" /\ rot'.pc # "idle" /\ BadKeys(rot'.old_key)) =>
                /\ rot'.pc = "aborted"
                /\ rot'.total = 0
                /\ DOMAIN rot'.loaded = {}
                /\ connections' = connections
       /\ (rot.pc = "aborted" /\ rot' # rot) =>
                /\ rot'.pc = "idle"
                /\ connections' = connections]_vars

\* C18 witness: a run has been refused for equal keys while the table held
\* rows to rotate.
C18_Witness ==
    /\ rot.pc = "aborted"
    /\ rot.old_key = env["command"]
    /\ rot.old_key \in MasterKeys
    /\ Selected(connections) # {}

----------------------------------------------------------------------------
(* C19 *)

\* C19: a dry run with acceptable keys reports the number of rows holding
\* an access token and stops: it changes no connection row, loads none, and
\* the only step it still takes is its exit.
C19_DryRunChangesNothing ==
    [][/\ (rot.pc = "idle" /\ rot'.pc # "idle" /\ rot'.dry_run /\ ~BadKeys(rot'.old_key)) =>
                /\ rot'.pc = "dry"
                /\ rot'.total = Cardinality(Selected(connections))
                /\ DOMAIN rot'.loaded = {}
                /\ connections' = connections
       /\ (rot.pc = "dry" /\ rot' # rot) =>
                /\ rot'.pc = "idle"
                /\ connections' = connections]_vars

\* C19 witness: a dry run has reported two rows, both still sealed under the
\* old key.
C19_Witness ==
    /\ rot.pc = "dry"
    /\ rot.total = 2
    /\ \A p \in Selected(connections) :
            DecryptsUnder(rot.old_key, connections[p].access_token, "at1")
    /\ Cardinality(Selected(connections)) = 2

----------------------------------------------------------------------------
(* C20 *)

ValidKey(k) == k # UnsetKey /\ KeyLength(k) >= MinKeyLength

----------------------------------------------------------------------------
(* C21 *)

----------------------------------------------------------------------------
(* C22 *)

\* C22: whenever the master key of the calling process is absent or shorter
\* than 32 characters, encrypt_token and decrypt_token both raise: no stored
\* value comes out of the one, no plaintext out of the other.
C22_InvalidKeyFailsBoth ==
    /\ (vault.op = "encrypt" /\ ~ValidKey(vault.key)) =>
            vault.value = Raised("ValueError")
    /\ (vault.op = "decrypt" /\ ~ValidKey(vault.readkey)) =>
            vault.out = Raised("ValueError")
    /\ \A proc \in Procs, text \in Texts :
            ~ValidKey(env[proc]) =>
                /\ encrypt_token(proc, text) = Raised("ValueError")
                /\ \A k \in MasterKeys :
                        decrypt_token(proc, Sealed(derive_key(k, TokenContext), Encode(text)))
                            = Raised("ValueError")

\* C22 witness: a value encrypted under a valid key has been handed to
\* decrypt_token by a process whose key is unset or too short, and the call
\* has raised.
C22_Witness ==
    /\ vault.op = "decrypt"
    /\ vault.value.tag = "enc"
    /\ ValidKey(vault.key)
    /\ ~ValidKey(vault.readkey)
    /\ vault.out = Raised("ValueError")

----------------------------------------------------------------------------
(* C23 *)

\* The master keys under which a stored value decrypts to some plaintext.
OpensUnder(value) ==
    {k \in MasterKeys : \E text \in Texts : DecryptsUnder(k, value, text)}

\* C23: the key is read from the environment at every call. A value that
\* encrypt_token has returned decrypts under the key its process held at
\* that call and under no other, whether or not the environment has changed
\* since; and whatever a process encrypts now decrypts under the key it
\* holds now and under no other.
C23_KeyReadOnEveryCall ==
    /\ (vault.op \in {"encrypt", "decrypt"} /\ vault.value.tag = "enc") =>
            /\ DecryptsUnder(vault.key, vault.value, vault.text)
            /\ OpensUnder(vault.value) = {vault.key}
    /\ \A proc \in Procs, text \in Texts :
            ValidKey(env[proc]) =>
                OpensUnder(encrypt_token(proc, text)) = {env[proc]}

\* C23 witness: the last value was written by a process whose key had been
\* changed from k1 to k2 before: it opens under k2 and not under k1.
C23_Witness ==
    /\ vault.op = "encrypt"
    /\ vault.key = K2
    /\ env[vault.proc] = K2
    /\ OpensUnder(vault.value) = {K2}

----------------------------------------------------------------------------
(* C24 *)

\* The rule of the role check: org admin or staff, or a membership of the
\* team whose rank is at least that of the role asked for.
HoldsRole(user, team, min_role) ==
    \/ IsAdmin(user)
    \/ /\ get_user_role_in_team(user, team) \in Roles
       /\ ROLE_HIERARCHY[get_user_role_in_team(user, team)] >= ROLE_HIERARCHY[min_role]

\* C24: for an authenticated user and an existing team, require_team_role
\* returns the user and the team exactly when the user is org admin or
\* staff, or is a member of the team with a role ranked at least min_role
\* in member < team_lead < admin.
C24_RoleCheckPassesIffRanked ==
    \A user \in Accounts, team \in Teams, min_role \in Roles :
        LET r == require_team_role(user, team, min_role)
        IN  /\ r.status = 200 <=> HoldsRole(user, team, min_role)
            /\ r.status = 200 => (r.user = user /\ r.team = team)

\* C24 witness: a team lead who is neither org admin nor staff passes the
\* check for team_lead and fails it for admin, while the staff account,
\* which has no membership anywhere, passes it for admin.
C24_Witness ==
    \E lead \in Users, boss \in {Root}, team \in Teams :
        /\ ~IsAdmin(lead)
        /\ get_user_role_in_team(lead, team) = "team_lead"
        /\ require_team_role(lead, team, "team_lead").status = 200
        /\ require_team_role(lead, team, "member").status = 200
        /\ require_team_role(lead, team, "admin").status = 403
        /\ IsAdmin(boss)
        /\ require_team_role(boss, team, "admin") = RoleCheck(200, "", boss, team)

----------------------------------------------------------------------------
(* C25 *)

\* C25: the failures of require_team_role come in a fixed order: 401 for an
\* unauthenticated request whether or not the team exists; else 404 for a
\* team that does not exist, org admins and staff included; else 403, never
\* 404, for a user who is no member of the team or a member below min_role.
C25_RoleCheckFailurePrecedence ==
    \A user \in Accounts \cup {NoUser}, slug \in Slugs, min_role \in Roles :
        LET r == require_team_role(user, slug, min_role)
        IN  /\ user = NoUser => r.status = 401
            /\ (user # NoUser /\ slug \notin Teams) => r.status = 404
            /\ (user # NoUser /\ slug \in Teams /\ ~HoldsRole(user, slug, min_role)) =>
                    r.status = 403
            /\ r.status # 200 => (r.user = NoUser /\ r.team = NoTeam)

\* C25 witness: a state with a staff user and a plain member, in which all
\* four failures can be had: 401, 404 also for the staff user, 403 for the
\* non-member and 403 for the member asked for team_lead.
C25_Witness ==
    \E boss \in {Root}, plain \in Users, team \in Teams, other \in Teams :
        /\ IsAdmin(boss)
        /\ ~IsAdmin(plain)
        /\ get_user_role_in_team(plain, team) = "member"
        /\ get_user_role_in_team(plain, other) = NoRole
        /\ require_team_role(NoUser, GhostSlug, "member").status = 401
        /\ require_team_role(NoUser, team, "member").status = 401
        /\ require_team_role(boss, GhostSlug, "member").status = 404
        /\ require_team_role(plain, GhostSlug, "member").status = 404
        /\ require_team_role(plain, other, "member").status = 403
        /\ require_team_role(plain, team, "team_lead").status = 403

----------------------------------------------------------------------------
(* Team reference of team-visible entries *)

TeamRowsHaveTeam(tbl) == \A e \in tbl : e.visibility = TEAM => e.team \in Teams

\* Rows a direct creation can ask for.
NewRows ==
    {Entry(u, NoAgent, f, v, t, NoUser) :
        u \in Users, f \in Files, v \in Visibilities, t \in Teams \cup {NoTeam}}

\* C26: in every state reached by uploads and shares every team-visible
\* entry carries a team, and every creation, upload or share issued from that
\* state keeps it so; creating a team-visible row without a team raises the
\* validation error and inserts nothing, and a team upload without a slug is
\* answered 400 and changes nothing.
C26_TeamEntriesHaveTeam ==
    /\ TeamRowsHaveTeam(entries)
    /\ \A row \in NewRows :
          /\ TeamRowsHaveTeam(create_entry(entries, row).entries)
          /\ (row.visibility = TEAM /\ row.team = NoTeam) =>
                /\ create_entry(entries, row).raised
                /\ create_entry(entries, row).entries = entries
    /\ \A u \in Users, f \in Files :
          /\ \A o \in UploadOutcomes(u, f, "team", NoSlug) :
                o.resp.status = 400 /\ Unchanged(o)
          /\ \A tgt \in UploadTargets :
                \A o \in UploadOutcomes(u, f, tgt[1], tgt[2]) : TeamRowsHaveTeam(o.entries)
          /\ \A tgt \in ShareTargets :
                TeamRowsHaveTeam(share_content(u, f, tgt[1], tgt[2]).entries)

\* C26 witness: the table holds a team-visible entry that was uploaded to its
\* team and another that was shared to its team, and the owner's team upload
\* without a slug is refused.
C26_Witness ==
    \E up \in entries, sh \in entries :
        /\ up.visibility = TEAM /\ up.shared_by = NoUser /\ up.team \in Teams
        /\ sh.visibility = TEAM /\ sh.shared_by = sh.user /\ sh.team \in Teams
        /\ \A o \in UploadOutcomes(up.user, up.file, "team", NoSlug) : o.resp.status = 400

----------------------------------------------------------------------------
(* Effect of a share *)

OwnRows(tbl, u, f) == {e \in tbl : e.user = u /\ e.file = f}

\* The request passes every check share_content makes before it counts rows.
ShareAdmitted(u, tier, slug) ==
    \/ tier = "org" /\ IsAdmin(u)
    \/ tier = "team" /\ slug \in Teams /\ (IsMember(u, slug) \/ IsAdmin(u))

----------------------------------------------------------------------------
(* The access filter without a user, and with an agent *)

\* C28: built without a user and without an agent, the access filter is a
\* well-defined condition that no content item satisfies, whatever its tier
\* and owner, and a query through it returns the empty set.
C28_NobodyMatchesNothing ==
    /\ \A item \in ContentItems :
          build_entry_access_filter(NoUser, NoAgent, item) = FALSE
    /\ (query.kind = "entry" /\ query.user = NoUser /\ query.agent = NoAgent) =>
          query.visible = {}

\* C28 witness: the table holds rows of every tier, of users and of an agent,
\* and the query without user and agent has been answered with nothing.
C28_Witness ==
    /\ query.kind = "entry" /\ query.user = NoUser /\ query.agent = NoAgent
    /\ query.visible = {}
    /\ \A v \in Visibilities :
          /\ \E e \in entries : e.visibility = v /\ e.user \in Users
          /\ \E e \in entries : e.visibility = v /\ e.agent \in Agents
----------------------------------------------------------------------------
(* The sweep specification: the scheduled refresh job over a table of rows *)
(* that earlier callbacks and refreshes have left, beside disconnects,     *)
(* service deletions and the passing of time.  The job runs in a scheduler *)
(* thread to the end of its loop, and every HTTP call of a refresh returns *)
(* or raises within its timeout, so a started loop body and the end of the *)
(* loop are taken once they can be.                                        *)

\* Rows a table can hold before a sweep: connected or in error, expiring
\* soon or later, with or without a refresh token.
SweepRows ==
    {Connection(st, Sealed(derive_key(K1, TokenContext), Encode("at1")), rt, ex,
                IF st = ERROR THEN "Refresh failed" ELSE NoError) :
        st \in {CONNECTED, ERROR},
        rt \in {Sealed(derive_key(K1, TokenContext), Encode("rt1")), NoToken},
        ex \in Expiries}

InitSweep ==
    /\ isOrgAdmin = {}
    /\ isStaff = {Root}
    /\ memberships = NoMemberships
    /\ entries = {}
    /\ agents = {}
    /\ fileObjects = {}
    /\ resp = NoResp
    /\ query = NoQuery
    /\ connections \in [DOMAIN NoConnections -> SweepRows \cup {NoRow}]
    /\ InitIdle

NextSweep ==
    \/ SweepScan
    \/ SweepRefresh
    \/ SweepEnd
    \/ Tick
    \/ Disconnect
    \/ DeleteService

SpecSweep ==
    InitSweep /\ [][NextSweep]_vars /\ WF_vars(SweepRefresh) /\ WF_vars(SweepEnd)

----------------------------------------------------------------------------
(* One sweep *)

SweepSelects(row) ==
    row # NoRow /\ row.status = CONNECTED /\ row.token_expires_at = "soon"
        /\ row.refresh_token # NoToken

\* While the loop runs, the rows it was given are those selected at the scan
\* and each of them is either still to be attempted or attempted, never both.
SweepBooks ==
    sweep.pc = "run" =>
        /\ \A p \in DOMAIN sweep.loaded : SweepSelects(sweep.loaded[p])
        /\ sweep.todo \cup sweep.done = DOMAIN sweep.loaded
        /\ sweep.todo \cap sweep.done = {}
        /\ sweep.ok \subseteq sweep.done

\* The scan takes exactly the rows that are selected in the table it reads;
\* an attempt takes one row not attempted before, whatever its result; the
\* loop ends only when every row it was given has been attempted.
SweepSteps ==
    /\ (sweep.pc = "idle" /\ sweep'.pc = "run") =>
          /\ DOMAIN sweep'.loaded = {p \in DOMAIN connections : SweepSelects(connections[p])}
          /\ \A p \in DOMAIN sweep'.loaded : sweep'.loaded[p] = connections[p]
          /\ sweep'.todo = DOMAIN sweep'.loaded /\ sweep'.done = {}
    /\ (sweep.pc = "run" /\ sweep'.pc = "run" /\ sweep' # sweep) =>
          \E p \in sweep.todo :
              /\ sweep'.todo = sweep.todo \ {p}
              /\ sweep'.done = sweep.done \cup {p}
              /\ sweep'.loaded = sweep.loaded
              /\ \A q \in DOMAIN connections : q # p => connections'[q] = connections[q]
    /\ (sweep.pc = "run" /\ sweep'.pc = "idle") =>
          sweep.todo = {} /\ sweep.done = DOMAIN sweep.loaded

\* C30: one sweep attempts a refresh exactly once, one row at a time, for
\* every row that the scan found connected, expiring within the hour and
\* holding a refresh token, and for no other row; a failed or raising refresh
\* of one row leaves the remaining rows to be attempted; and every sweep that
\* has started comes to its end.
C30_SweepAttemptsEachSelectedRowOnce ==
    /\ []SweepBooks
    /\ [][SweepSteps]_vars
    /\ (sweep.pc = "run") ~> (sweep.pc = "idle")

\* C30 witness: the scan selected two rows; both have been attempted, the
\* refresh of one did not succeed and that of the other did.
C30_Witness ==
    /\ sweep.pc = "run"
    /\ Cardinality(DOMAIN sweep.loaded) = 2
    /\ sweep.done = DOMAIN sweep.loaded
    /\ Cardinality(sweep.ok) = 1

----------------------------------------------------------------------------
(* Interrupted token requests *)

\* Provider behaviours that interrupt an operation at an HTTP round trip:
\* the discovery GET raises or times out, the token POST times out, the
\* request is cancelled while waiting.
Interrupted(answer) == answer.kind \in RaisingKinds

\* What the table holds after a refresh attempt on the row of pair p.
AfterRefresh(p, o) == IF o.saved THEN Save(p, o.row) ELSE connections

\* C31: a code exchange or a refresh that is cancelled or times out at an
\* HTTP round trip leaves every persisted connection row exactly as it was:
\* the callback writes no row, the refresh does not save the object it was
\* given, so neither the status nor any token or expiry changes.
C31_InterruptedRequestKeepsRow ==
    /\ \A c \in CallbackCalls :
          Interrupted(c.answer) => c.outcome.connections = connections
    /\ \A p \in sweep.todo, answer \in RefreshAnswers \cup CancelledAnswers :
          Interrupted(answer) =>
              LET o == refresh_access_token(sweep.loaded[p], answer)
              IN  /\ ~o.saved
                  /\ o.result # "true"
                  /\ AfterRefresh(p, o) = connections

\* C31 witness: a connected row with both tokens is loaded by a running
\* sweep and its user has a connect attempt pending; the refresh of the row
\* and the exchange of the pending state can both time out or be cancelled.
C31_Witness ==
    \E p \in sweep.todo : \E st \in States :
        /\ connections[p] = sweep.loaded[p]
        /\ connections[p].status = CONNECTED
        /\ connections[p].access_token.tag = "enc"
        /\ connections[p].refresh_token.tag = "enc"
        /\ Bindings(p[1], st) # {}
        /\ \A answer \in CancelledAnswers \cup {a \in FailedAnswers : a.kind = "timeout"} :
              /\ refresh_access_token(sweep.loaded[p], answer).result = "raise"
              /\ mcp_oauth_callback(p[1], NoProviderError, "c1", st, answer).resp.exchanged
              /\ mcp_oauth_callback(p[1], NoProviderError, "c1", st, answer).resp.msg
                    \in {"token_exchange_failed", "CancelledError"}

----------------------------------------------------------------------------
(* One row per user and service *)

\* The table as the set of its rows, each with the pair it belongs to.
RowsOf(table) ==
    {[user |-> p[1], service |-> p[2], row |-> table[p]] :
        p \in {q \in DOMAIN table : table[q] # NoRow}}

\* Faulty variant of update_or_create: a row is inserted without looking
\* for one of the pair.
update_or_create_AlwaysCreates(rows, user, service, defaults) ==
    rows \cup {[user |-> user, service |-> service, row |-> defaults]}

\* McpUserConnection.objects.update_or_create(user=, service=, defaults=):
\* the row of the pair takes the defaults; it is created when there is none.
update_or_create(rows, user, service, defaults) ==
    {r \in rows : ~(r.user = user /\ r.service = service)}
        \cup {[user |-> user, service |-> service, row |-> defaults]}

OnePerPair(rows) ==
    \A r1 \in rows, r2 \in rows :
        (r1.user = r2.user /\ r1.service = r2.service) => r1 = r2

\* The service the callback of c is bound to.
BoundService(c) == (CHOOSE b \in Bindings(c.user, c.state) : TRUE)[2]

----------------------------------------------------------------------------
(* Concurrent connect attempts *)

\* Rows a callback that succeeds can write: nothing of an earlier row is in
\* them.
CallbackRows ==
    {Connection(CONNECTED, encrypt_token("server", a.access),
                IF a.refresh = "" THEN NoToken ELSE encrypt_token("server", a.refresh),
                IF a.expires = "" THEN "soon" ELSE a.expires, NoError) :
        a \in {b \in CallbackAnswers : b.kind = "ok"}}

\* No two pending bindings of a user share their state.
PendingDistinct ==
    \A u \in Users : \A b1 \in sessions[u], b2 \in sessions[u] : b1[1] = b2[1] => b1 = b2

\* A step touches the pending bindings of at most one (user, state): a
\* connect attempt adds one under a state never issued before and leaves
\* all others, a callback removes the one it was called with and leaves
\* all others; a callback that writes a row writes only that of its own
\* user, and what it writes are the tokens of its own exchange.
PendingSteps ==
    /\ \A u \in Users : \A b \in sessions'[u] \ sessions[u] :
          /\ b[1] \notin issued
          /\ sessions'[u] = sessions[u] \cup {b}
          /\ \A v \in Users \ {u} : sessions'[v] = sessions[v]
          /\ connections' = connections
    /\ \A u \in Users : \A b \in sessions[u] \ sessions'[u] :
          /\ <<u, b[1]>> \in redeemed'
          /\ sessions'[u] = sessions[u] \ {b}
          /\ \A v \in Users \ {u} : sessions'[v] = sessions[v]
          /\ \A p \in DOMAIN connections :
                connections'[p] # connections[p] =>
                    p = <<u, b[2]>> /\ connections'[p] \in CallbackRows

----------------------------------------------------------------------------
(* The audit specification: sign-ins and direct calls of audit_log while   *)
(* the audit table accepts or refuses rows.                                *)

TokenKinds == {"ok", "error", "no_oid"}

ApplyAudit(table, r) ==
    /\ Len(table.records) <= MaxAudit
    /\ table.logged <= MaxAudit
    /\ audit' = table
    /\ resp' = r
    /\ UNCHANGED <<roleVars, contentVars, agents, deleting, query, connections, flowVars, vaultVars>>

EntraCallback ==
    \E user \in Accounts, error \in ProviderErrors \cup {NoProviderError},
       code \in Codes \cup {NoCode}, token \in TokenKinds, db \in DbBehaviours :
        LET o == entra_callback(user, error, code, token, db)
        IN  ApplyAudit(o.audit, o.resp)

AuditCall ==
    \E user \in Accounts \cup {NoUser}, action \in AuditActions \cup {LongAction},
       db \in DbBehaviours :
        LET o == audit_log(user, action, db)
        IN  /\ ~o.raised
            /\ ApplyAudit(o.audit, resp)

InitAudit ==
    /\ isOrgAdmin = {}
    /\ isStaff = {Root}
    /\ memberships = NoMemberships
    /\ entries = {}
    /\ agents = {}
    /\ fileObjects = {}
    /\ resp = NoResp
    /\ query = NoQuery
    /\ connections = NoConnections
    /\ InitIdle

NextAudit ==
    \/ EntraCallback
    \/ AuditCall

SpecAudit == InitAudit /\ [][NextAudit]_vars

----------------------------------------------------------------------------
(* Audit failures *)

\* C34: audit_log never raises: when the insert of the audit row fails the
\* table is as before, one error is logged and the call returns; a sign-in
\* answers the same whether its audit row was stored or not.
C34_AuditFailuresSwallowed ==
    /\ \A user \in Accounts \cup {NoUser}, action \in AuditActions \cup {LongAction},
          db \in DbBehaviours :
          LET o == audit_log(user, action, db)
          IN  /\ ~o.raised
              /\ (db = "error" \/ action = LongAction) =>
                    /\ o.audit.records = audit.records
                    /\ o.audit.logged = audit.logged + 1
    /\ \A user \in Accounts, error \in ProviderErrors \cup {NoProviderError},
          code \in Codes \cup {NoCode}, token \in TokenKinds :
          /\ entra_callback(user, error, code, token, "error").resp
                = entra_callback(user, error, code, token, "ok").resp
          /\ entra_callback(user, error, code, token, "error").resp.status = 302

\* C34 witness: a sign-in has just been answered as signed in although no
\* audit row could be stored: the table is empty and an error was logged.
C34_Witness ==
    /\ resp.op = "login" /\ resp.status = 302 /\ resp.msg = "signed_in"
    /\ audit.records = <<>>
    /\ audit.logged >= 1

----------------------------------------------------------------------------
(* Disconnect beside a refresh or a rotation *)

\* A revoked row holds no token.
RevokedHoldsNothing ==
    \A p \in DOMAIN connections :
        (connections[p] # NoRow /\ connections[p].status = REVOKED) =>
            connections[p].access_token = NoToken /\ connections[p].refresh_token = NoToken

\* Only a callback that succeeds for the row's user takes a row out of
\* status revoked.
RevokedUntilCallback ==
    \A p \in DOMAIN connections :
        (/\ connections[p] # NoRow /\ connections[p].status = REVOKED
         /\ connections'[p] # NoRow /\ connections'[p].status \in {CONNECTED, ERROR}) =>
            /\ resp'.op = "callback" /\ resp'.msg = "mcp_connected"
            /\ resp'.user = p[1]
            /\ <<p[1], resp'.state>> \in redeemed' \ redeemed

\* C35: whatever the interleaving of a disconnect with a refresh or a
\* rotation step that had loaded the row before, a revoked row holds neither
\* token, and a revoked row becomes connected or error only by a new
\* callback that succeeds.
C35_DisconnectIsFinal ==
    /\ []RevokedHoldsNothing
    /\ [][RevokedUntilCallback]_vars

----------------------------------------------------------------------------
(* The delete-and-share specification: DELETE /file of a user who is no    *)
(* admin, taken in the two steps its awaits separate (the guard, then the  *)
(* deletion), beside share requests of the same user.                      *)

\* _check_delete_permission_for_entries has returned for the request.
DeleteCheck(u) ==
    \E f \in Files :
        /\ <<u, f>> \notin deleting
        /\ Granted \in CheckDeletePermission(u, EntriesByFile(u, f))
        /\ deleting' = deleting \cup {<<u, f>>}
        /\ UNCHANGED <<roleVars, contentVars, agents, audit, resp, query, connections,
                       flowVars, vaultVars>>

\* adelete_entry_by_file and adelete_file_object_by_name of the request.
DeleteRun(u) ==
    \E f \in Files :
        /\ <<u, f>> \in deleting
        /\ entries' = DeleteEntriesByFiles(entries, u, {f})
        /\ fileObjects' = DeleteFileObjects(fileObjects, u, {f})
        /\ deleting' = deleting \ {<<u, f>>}
        /\ UNCHANGED <<roleVars, agents, audit, resp, query, connections, flowVars, vaultVars>>

\* The user's standing in the teams, and the user's rows: one private row
\* under each path.
InitShareRace ==
    /\ isOrgAdmin = {}
    /\ isStaff = {Root}
    /\ memberships \in {m \in [Users \X Teams -> Roles \cup {NoRole}] :
                          \A t \in Teams : m[<<"u2", t>>] = NoRole}
    /\ entries = {Entry(u, NoAgent, f, PRIVATE, NoTeam, NoUser) : u \in Requesters, f \in Files}
    /\ agents = {}
    /\ fileObjects = {<<u, f>> : u \in Requesters, f \in Files}
    /\ resp = NoResp
    /\ query = NoQuery
    /\ connections = NoConnections
    /\ InitIdle

NextShareRace ==
    \/ \E u \in Requesters : DeleteCheck(u)
    \/ \E u \in Requesters : DeleteRun(u)
    \/ \E u \in Requesters : Share(u)

SpecShareRace == InitShareRace /\ [][NextShareRace]_vars

----------------------------------------------------------------------------
(* Delete beside share *)

\* The user holds what the guard asks for a row of this tier.
HoldsDeleteRole(u, e) ==
    \/ IsAdmin(u)
    \/ e.visibility = PRIVATE
    \/ /\ e.visibility = TEAM
       /\ get_user_role_in_team(u, e.team) # NoRole
       /\ ROLE_HIERARCHY[get_user_role_in_team(u, e.team)] >= ROLE_HIERARCHY["team_lead"]

\* A step that runs the deletion of a request removes only rows for which
\* the user holds the role of the row's tier as the row is at that moment.
DeletesOnlyPermitted ==
    \A d \in deleting \ deleting' :
        \A e \in EntriesByFile(d[1], d[2]) : HoldsDeleteRole(d[1], e)

\* C36: however a delete and a share of the same non-admin user for the
\* same file interleave, no row that is team- or organization-visible at
\* the moment it is deleted goes unless the user holds the role the guard
\* requires for that tier.
C36_DeleteGuardCoversDeletion == [][DeletesOnlyPermitted]_vars

----------------------------------------------------------------------------
(* Rows a sweep has attempted *)

\* The next scan would select the row of pair p in the table as it is
\* after the step.
SelectedAgain(p) ==
    /\ connections'[p] # NoRow
    /\ connections'[p].status = CONNECTED
    /\ connections'[p].token_expires_at = "soon"
    /\ connections'[p].refresh_token # NoToken

\* C37: a row that a sweep has just attempted is not selected by the next
\* scan: its expiry lies beyond the lookahead or its status is no longer
\* connected, also when the refresh raised and when it succeeded on an
\* answer without expiry; so no connected row is attempted by sweep after
\* sweep without end.
C37_AttemptedRowLeavesSelection ==
    [][\A p \in sweep'.done \ sweep.done : ~SelectedAgain(p)]_vars

----------------------------------------------------------------------------
(* C38: the registry specification: services with a client secret beside  *)
(* a rotation run and the restart of the server on the new key.           *)

ClientSecrets == {"", "cs1"}

\* An admin or any other user posts a new service.
CreateService ==
    \E actor \in {Root, "u1"}, s \in Services \ registry, secret \in ClientSecrets :
        LET o == create_mcp_service(actor, s, secret)
        IN  /\ registry' = o.registry
            /\ client_secrets' = o.client_secrets
            /\ resp' = o.resp
            /\ UNCHANGED <<roleVars, contentVars, agents, audit, deleting, query, connections,
                           sessions, issued, redeemed, vaultVars>>

\* The server has run on K1 and has stored its rows and client secrets
\* under it; the operator has set the new key for the command.
InitRegistry ==
    /\ isOrgAdmin = {}
    /\ isStaff = {Root}
    /\ memberships = NoMemberships
    /\ entries = {}
    /\ agents = {}
    /\ fileObjects = {}
    /\ resp = NoResp
    /\ query = NoQuery
    /\ connections \in [DOMAIN NoConnections -> {SeedRow(K1, TRUE), NoRow}]
    /\ registry = Services
    /\ sessions = NoSessions
    /\ issued = {}
    /\ redeemed = {}
    /\ env = [server |-> K1, command |-> K2]
    /\ sweep = IdleSweep
    /\ rot = IdleRot
    /\ vault = NoVault
    /\ audit = NoAudit
    /\ deleting = {}
    /\ client_secrets \in [Services -> {NoToken, encrypt_token("server", "cs1")}]

NextRegistry ==
    \/ Restart
    \/ RotateStart
    \/ RotateLoad
    \/ RotateRow
    \/ RotateEnd
    \/ RotateExit
    \/ DeleteService
    \/ CreateService

SpecRegistry == InitRegistry /\ [][NextRegistry]_vars

\* Every token a connection row holds decrypts under the server's key.
RowSecretsDecrypt ==
    \A p \in DOMAIN connections :
        connections[p] # NoRow =>
            \A f \in SecretFields :
                connections[p][f] # NoToken =>
                    decrypt_token("server", connections[p][f]).tag = "plain"

\* The client secret of every service can be read for a token request.
ClientSecretsDecrypt == \A s \in registry : client_secret(s).tag = "plain"

\* A quiet run has finished without errors and the server runs on the key
\* the run has encrypted under.
RotatedAndRestarted ==
    /\ QuietRun
    /\ rot.errors = 0
    /\ env["server"] = env["command"]

\* C38: after a rotation run that reports zero errors, every persisted
\* secret decrypts under the current master key: the tokens of the
\* connection rows and the client secrets of the service registry rows, so
\* that a later exchange or refresh of a service with a client secret does
\* not fail on decryption.
C38_RotationCoversEverySecret ==
    RotatedAndRestarted => RowSecretsDecrypt /\ ClientSecretsDecrypt

----------------------------------------------------------------------------
(* C39: the rotation specification over rows of which one field does not  *)
(* decrypt under the old key.                                             *)

\* Rows of which one stored field is no output of encrypt_token, beside the
\* rows the callback has written under the key k.
DamagedRows(k) ==
    {Connection(CONNECTED, Sealed(derive_key(k, TokenContext), Encode("at1")),
                Garbled, "soon", NoError),
     Connection(CONNECTED, Garbled,
                Sealed(derive_key(k, TokenContext), Encode("rt1")), "soon", NoError)}

InitRotate ==
    /\ isOrgAdmin = {}
    /\ isStaff = {Root}
    /\ memberships = NoMemberships
    /\ entries = {}
    /\ agents = {}
    /\ fileObjects = {}
    /\ resp = NoResp
    /\ query = NoQuery
    /\ connections \in [DOMAIN NoConnections ->
                            SeedRows \cup DamagedRows(K1) \cup DamagedRows(K2) \cup {NoRow}]
    /\ registry = Services
    /\ sessions = NoSessions
    /\ issued = {}
    /\ redeemed = {}
    /\ env = [server |-> K1, command |-> K2]
    /\ sweep = IdleSweep
    /\ rot = IdleRot
    /\ vault = NoVault
    /\ audit = NoAudit
    /\ deleting = {}
    /\ client_secrets = NoSecrets

NextRotate ==
    \/ RotateStart
    \/ RotateLoad
    \/ RotateRow
    \/ RotateEnd
    \/ RotateExit

SpecRotate == InitRotate /\ [][NextRotate]_vars

\* The rows the step has taken from the work list and counted as errors.
FailedNow == IF rot'.errors = rot.errors + 1 THEN rot.todo \ rot'.todo ELSE {}

\* A row the run counts as failed is in the table as it was.
FailedRowUntouched == \A p \in FailedNow : connections'[p] = connections[p]

\* The access token is under the run's new key and the refresh token under
\* its old key.
HalfRotated(row) ==
    /\ row # NoRow
    /\ \E text \in TokenTexts : DecryptsUnder(env["command"], row.access_token, text)
    /\ \E text \in TokenTexts : DecryptsUnder(rot.old_key, row.refresh_token, text)

NoHalfRotatedRow ==
    rot.pc \in {"loop", "done"} => \A p \in DOMAIN rot.loaded : ~HalfRotated(connections[p])

\* C39: when the rotation of one connection row fails on either of its
\* token fields, the stored row is left exactly as it was, and no row a run
\* has loaded ends with its access token under the new key while its
\* refresh token is still under the old key.
C39_FailedRowIsLeftAsItWas == []NoHalfRotatedRow /\ [][FailedRowUntouched]_vars

\* C39 witness: a run has rotated one row and has counted the other as
\* failed on its refresh token after its access token had decrypted; the
\* failed row is in the table as it was loaded.
C39_Witness ==
    /\ rot.pc = "done"
    /\ rot.success = 1
    /\ rot.errors = 1
    /\ \E p \in DOMAIN rot.loaded \ rot.rotated :
            /\ DecryptsUnder(rot.old_key, rot.loaded[p].access_token, "at1")
            /\ rot.loaded[p].refresh_token = Garbled
            /\ connections[p] = rot.loaded[p]

----------------------------------------------------------------------------
(* C40 *)

\* The step is a connect attempt on a registered service that start_auth_flow
\* has ended with an exception: a state value was drawn and the answer is 500.
FailedConnect ==
    /\ issued' # issued
    /\ resp'.op = "connect"
    /\ resp'.status = 500

\* C40: a connect attempt that fails because no client id is configured and
\* dynamic registration gives none leaves no pending authorization state
\* behind: the session holds no verifier and no service binding for the
\* state value that was never returned to the caller.
C40_FailedConnectLeavesNoPendingState ==
    [][FailedConnect => sessions' = sessions]_vars

====
